---------------------------- MODULE Spec2Model ----------------------------
(***************************************************************************)
(* Groupdeedo: the in-memory registry of connected clients (activeUsers),  *)
(* the channel matching rule, the fan-out of new posts, the snapshot       *)
(* loader and the vote / moderation routes of src/server.js, over the      *)
(* SQLite store of src/models/database.js.                                 *)
(*                                                                         *)
(* Node runs every handler to its next await; each store call is one       *)
(* atomic SQL statement executed at some later moment.  Every handler is   *)
(* therefore cut at its awaits.  The socket handlers take one action up to *)
(* the store call, one for the statement and one for the code after it;    *)
(* the HTTP routes take one action up to the first statement and then one  *)
(* action per statement, together with the code its callback resumes.      *)
(*                                                                         *)
(* Strings whose content the code inspects (channels) are sequences of     *)
(* one-character strings, so that trim() is computed and not assumed.      *)
(***************************************************************************)
EXTENDS Integers, Sequences, FiniteSets, TLC

VARIABLES
    opened,        \* socket ids socket.io has handed to io.on('connection')
    sockets,       \* socket ids socket.io currently holds as connected
    activeUsers,   \* server.js:86, the Map socket id -> user object
    timers,        \* socket ids whose setTimeout of server.js:186 is pending
    posts,         \* the rows of table posts, in rowid order
    votes,         \* the rows of table votes
    nextPostId,    \* how many post ids uuidv4() has handed out, plus one
    now,           \* the wall clock, in seconds
    sends,         \* sendMessage handlers suspended at db.createPost
    loads,         \* sendFilteredPosts calls suspended at db.getRecentPosts
    requests,      \* HTTP requests (vote, admin delete) suspended at a store call
    emitted,       \* what the last step pushed to sockets, in order
    last,          \* the client payload handled by the last step, if it took one
    deletions,     \* post id -> number of io.emit('messageDeleted') calls so far
    fnIn,          \* inputs of the matching rule under SpecMatch
    fnOut,         \* its results under SpecMatch; under SpecLog the
                   \* deliveries made so far, oldest first
    sessionStore,  \* adminAuth.sessionStore: token -> session
    nextToken      \* the next token generateSessionToken() draws

vars == <<opened, sockets, activeUsers, timers, posts, votes, nextPostId, now,
          sends, loads, requests, emitted, last, deletions, fnIn, fnOut,
          sessionStore, nextToken>>

----------------------------------------------------------------------------
(* Bounds of the model.                                                    *)

\* Posts created in one run.
MaxPosts == 2
\* Seconds the clock may advance.
MaxClock == 1
\* The code asks the store for the last 100 posts (server.js:205).  The
\* model holds a handful of rows, so the limit is scaled down with them:
\* the LIMIT clause then does cut the oldest rows off.
RecentLimit == 2

\* Admin sessions that may be created.
MaxTokens == 2

\* Calls that may be suspended at a store call at the same time: one
\* sendFilteredPosts call, one sendMessage handler, two HTTP requests.
LoadSlots == {1}
SendSlots == {1}
RequestSlots == {1, 2}

\* Socket ids.  socket.io never reuses an id; the n-th connection gets id n.
ConnIds == {1, 2, 3}

----------------------------------------------------------------------------
(* JavaScript values a client can put in a payload field.                  *)

JsUndefined == [t |-> "undefined", s |-> <<>>]
JsNull == [t |-> "null", s |-> <<>>]
JsString(chars) == [t |-> "string", s |-> chars]

\* new Date(): the server code stores these values and never reads them.
Date == "Date"

WhiteSpace == {" ", "\t"}

Str_alpha == <<"a", "l", "p", "h", "a">>
Str_Alpha_sp == <<"A", "l", "p", "h", "a", " ">>
Str_sp_alpha_sp == <<" ", "a", "l", "p", "h", "a", " ">>
Str_beta == <<"b", "e", "t", "a">>
Str_Bob == <<"B", "o", "b">>
Str_general == <<"g", "e", "n", "e", "r", "a", "l">>
Str_sp_general_sp == <<" ", "g", "e", "n", "e", "r", "a", "l", " ">>
Str_Anonymous == <<"A", "n", "o", "n", "y", "m", "o", "u", "s">>

\* String.prototype.trim: strips white space at both ends.
RECURSIVE TrimStart(_)
TrimStart(s) ==
    IF s # <<>> /\ Head(s) \in WhiteSpace THEN TrimStart(Tail(s)) ELSE s

RECURSIVE TrimEnd(_)
TrimEnd(s) ==
    IF s # <<>> /\ s[Len(s)] \in WhiteSpace
    THEN TrimEnd(SubSeq(s, 1, Len(s) - 1))
    ELSE s

trim(s) == TrimEnd(TrimStart(s))

\* A variant of normalizeChannel that does not trim.
normalizeChannelNoTrim(channel) ==
    IF channel.t \in {"null", "undefined"} THEN <<>> ELSE channel.s

\* server.js:190-195.  String(x) of a string is the string.
normalizeChannel(channel) ==
    IF channel.t \in {"null", "undefined"} THEN <<>> ELSE trim(channel.s)

\* JavaScript truthiness of undefined, null and strings.
Truthy(v) == v.t = "string" /\ v.s # <<>>

\* The matching rule as the fan-out writes it (server.js:226) and as the
\* snapshot filter writes it (server.js:209): both take the stored channel
\* values, which are strings.
FanoutMatches(postChannel, userChannel) ==
    normalizeChannel(postChannel) = normalizeChannel(userChannel)

SnapshotMatches(postChannel, userChannel) ==
    normalizeChannel(postChannel) = normalizeChannel(userChannel)

----------------------------------------------------------------------------
(* Events pushed to sockets.                                               *)

Event(to, event, data) == [to |-> to, event |-> event, data |-> data]

RECURSIVE SetToSeq(_)
\* The elements of a set of integers, ascending.
SetToSeq(S) ==
    IF S = {} THEN <<>>
    ELSE LET m == CHOOSE x \in S : \A y \in S : x <= y
         IN  <<m>> \o SetToSeq(S \ {m})

\* io.emit(event, data): one packet to every connected socket.
IoEmit(event, data) ==
    LET ids == SetToSeq(sockets)
    IN  [i \in 1..Len(ids) |-> Event(ids[i], event, data)]

\* server.js:236-243
notifyAdminPanel(event, data) ==
    IoEmit("adminNotification",
           [event |-> event, data |-> data, timestamp |-> Date])

EventsFor(events, c, event) ==
    SelectSeq(events, LAMBDA e : e.to = c /\ e.event = event)

----------------------------------------------------------------------------
(* The store: src/models/database.js.                                      *)

\* A variant of PostRow that writes the displayName the author has at the
\* moment of the INSERT.
PostRowLive(post, createdAt) ==
    LET authors == {c \in DOMAIN activeUsers :
                      activeUsers[c].sessionId = post.sessionId}
    IN  [id |-> post.id, session_id |-> post.sessionId,
         display_name |-> IF authors = {} THEN post.displayName
                          ELSE activeUsers[CHOOSE c \in authors : TRUE].displayName,
         message |-> post.message,
         image |-> post.image, latitude |-> post.latitude,
         longitude |-> post.longitude, channel |-> post.channel,
         timestamp |-> post.timestamp, created_at |-> createdAt]

\* createPost (database.js:126-157): the row the INSERT writes; created_at
\* is the column default CURRENT_TIMESTAMP, the second of the insert.
PostRow(post, createdAt) ==
    [id |-> post.id, session_id |-> post.sessionId,
     display_name |-> post.displayName, message |-> post.message,
     image |-> post.image, latitude |-> post.latitude,
     longitude |-> post.longitude, channel |-> post.channel,
     timestamp |-> post.timestamp, created_at |-> createdAt]

\* database.js:173-184: a row in application format.
RowToPost(row) ==
    [id |-> row.id, sessionId |-> row.session_id,
     displayName |-> row.display_name, message |-> row.message,
     image |-> row.image, latitude |-> row.latitude,
     longitude |-> row.longitude, channel |-> row.channel,
     timestamp |-> row.timestamp, createdAt |-> row.created_at]

Reverse(s) == [i \in 1..Len(s) |-> s[Len(s) + 1 - i]]

\* LIMIT n
Limit(s, n) == SubSeq(s, 1, IF Len(s) < n THEN Len(s) ELSE n)

\* Remove(s, i): s without its i-th element.
Remove(s, i) == SubSeq(s, 1, i - 1) \o SubSeq(s, i + 1, Len(s))

\* ORDER BY created_at DESC.  SQLite walks idx_posts_created_at
\* (database.js:80) backwards, so rows of one second come out by descending
\* rowid: of the rows with the greatest created_at, the last one is first.
RECURSIVE OrderByCreatedAtDesc(_)
OrderByCreatedAtDesc(rows) ==
    IF rows = <<>> THEN <<>>
    ELSE LET top == CHOOSE i \in 1..Len(rows) :
                       \A j \in 1..Len(rows) :
                          \/ rows[j].created_at < rows[i].created_at
                          \/ rows[j].created_at = rows[i].created_at /\ j <= i
         IN  <<rows[top]>> \o OrderByCreatedAtDesc(Remove(rows, top))

\* A variant of getRecentPosts that resolves to the rows newest first.
getRecentPostsNoReverse(limit) ==
    LET rows == Limit(OrderByCreatedAtDesc(posts), limit)
    IN  [i \in 1..Len(rows) |-> RowToPost(rows[i])]

\* getRecentPosts (database.js:159-190), as it resolves on success.
getRecentPosts(limit) ==
    LET rows == Limit(OrderByCreatedAtDesc(posts), limit)
    IN  Reverse([i \in 1..Len(rows) |-> RowToPost(rows[i])])

----------------------------------------------------------------------------
(* Socket handlers: src/server.js:89-187.                                  *)

NoArg == [t |-> "none"]


Step(op, conn, arg) == [op |-> op, conn |-> conn, arg |-> arg]

\* The value of last after a step that takes no payload from a client.
NoSteps == Step("none", 0, NoArg)

\* server.js:93-99.  uuidv4() is modelled as a value never drawn before.
NewUser(c) ==
    [id |-> c, sessionId |-> <<"session", c>>,
     displayName |-> JsString(Str_Anonymous), channel |-> JsString(<<>>),
     connectedAt |-> Date]

\* A variant of StartLoad that reads the store for an unregistered socket.
StartLoadUnchecked(c, users) ==
    Append(loads, [conn |-> c,
                   user |-> IF c \in DOMAIN users THEN users[c] ELSE NewUser(c),
                   pc |-> "read", allPosts |-> <<>>])

\* sendFilteredPosts up to its await (server.js:198-205).  The call keeps a
\* reference to the user object, which updateSettings mutates in place; the
\* copy held here is kept equal to the object by UpdateSettings.
StartLoad(c, users) ==
    IF c \in DOMAIN users
    THEN Append(loads, [conn |-> c, user |-> users[c], pc |-> "read",
                        allPosts |-> <<>>])
    ELSE loads

\* server.js:89-99 and 186
Connect(c) ==
    /\ c \notin opened
    /\ c = Cardinality(opened) + 1
    /\ opened' = opened \cup {c}
    /\ sockets' = sockets \cup {c}
    /\ activeUsers' = [k \in DOMAIN activeUsers \cup {c} |->
                         IF k = c THEN NewUser(c) ELSE activeUsers[k]]
    /\ timers' = timers \cup {c}
    /\ emitted' = <<>>
    /\ last' = NoSteps
    /\ UNCHANGED <<posts, votes, nextPostId, now, sends, loads, requests,
                   deletions, fnIn, fnOut, sessionStore, nextToken>>

\* A variant of MergeSettings that strips leading white space only.
MergeSettingsTrimStart(user, settings) ==
    [user EXCEPT
       !.displayName = IF Truthy(settings.displayName)
                       THEN settings.displayName ELSE user.displayName,
       !.channel = IF settings.channel.t # "undefined"
                   THEN JsString(TrimStart(normalizeChannelNoTrim(settings.channel)))
                   ELSE user.channel]

\* A variant of MergeSettings that stores the channel as the client sent it.
MergeSettingsRaw(user, settings) ==
    [user EXCEPT
       !.displayName = IF Truthy(settings.displayName)
                       THEN settings.displayName ELSE user.displayName,
       !.channel = IF settings.channel.t # "undefined"
                   THEN settings.channel ELSE user.channel]

\* A variant of MergeSettings that also takes the sessionId of the payload.
MergeSettingsAssign(user, settings) ==
    [user EXCEPT
       !.displayName = IF Truthy(settings.displayName)
                       THEN settings.displayName ELSE user.displayName,
       !.channel = IF settings.channel.t # "undefined"
                   THEN JsString(normalizeChannel(settings.channel))
                   ELSE user.channel,
       !.sessionId = IF settings.sessionId.t # "undefined"
                     THEN settings.sessionId.s ELSE user.sessionId]

\* server.js:108-109: the user object after the merge.
MergeSettings(user, settings) ==
    [user EXCEPT
       !.displayName = IF Truthy(settings.displayName)
                       THEN settings.displayName ELSE user.displayName,
       !.channel = IF settings.channel.t # "undefined"
                   THEN JsString(normalizeChannel(settings.channel))
                   ELSE user.channel]

\* A variant of ChannelChanged that looks at every field.
AnythingChanged(oldUser, user) == oldUser # user

\* server.js:118
ChannelChanged(oldUser, user) == oldUser.channel # user.channel

\* server.js:102-124.  The handler may run for a socket that has already
\* been deregistered; it then does nothing.
UpdateSettings(c, settings) ==
    /\ c \in opened
    /\ IF c \in DOMAIN activeUsers
       THEN LET oldUser == activeUsers[c]
                user == MergeSettings(oldUser, settings)
                users == [activeUsers EXCEPT ![c] = user]
                held == [i \in 1..Len(loads) |->
                           IF loads[i].conn = c
                           THEN [loads[i] EXCEPT !.user = user]
                           ELSE loads[i]]
                channelChanged == ChannelChanged(oldUser, user)
            IN  /\ activeUsers' = users
                /\ IF channelChanged
                   THEN /\ Len(loads) < Cardinality(LoadSlots)
                        /\ loads' = Append(held, [conn |-> c, user |-> user,
                                                  pc |-> "read",
                                                  allPosts |-> <<>>])
                   ELSE loads' = held
       ELSE UNCHANGED <<activeUsers, loads>>
    /\ emitted' = <<>>
    /\ last' = Step("updateSettings", c, settings)
    /\ UNCHANGED <<opened, sockets, timers, posts, votes, nextPostId, now,
                   sends, requests, deletions, fnIn, fnOut,
                   sessionStore, nextToken>>

\* A variant of deregister that empties the registry.
deregisterAll(users, c) == <<>>

\* server.js:182: activeUsers.delete(socket.id)
deregister(users, c) == [k \in DOMAIN users \ {c} |-> users[k]]

\* A variant of Disconnect that leaves the registry alone.
DisconnectKeepsUser(c) ==
    /\ c \in sockets
    /\ sockets' = sockets \ {c}
    /\ emitted' = <<>>
    /\ last' = NoSteps
    /\ UNCHANGED <<opened, activeUsers, timers, posts, votes, nextPostId, now,
                   sends, loads, requests, deletions, fnIn, fnOut,
                   sessionStore, nextToken>>

\* server.js:180-183.  socket.io drops the socket and runs the handler in
\* the same turn.
Disconnect(c) ==
    /\ c \in sockets
    /\ sockets' = sockets \ {c}
    /\ activeUsers' = deregister(activeUsers, c)
    /\ emitted' = <<>>
    /\ last' = NoSteps
    /\ UNCHANGED <<opened, timers, posts, votes, nextPostId, now, sends,
                   loads, requests, deletions, fnIn, fnOut,
                   sessionStore, nextToken>>

\* server.js:186: the timer set at connection fires.
TimerFire(c) ==
    /\ c \in timers
    /\ c \in DOMAIN activeUsers => Len(loads) < Cardinality(LoadSlots)
    /\ timers' = timers \ {c}
    /\ loads' = StartLoad(c, activeUsers)
    /\ emitted' = <<>>
    /\ last' = NoSteps
    /\ UNCHANGED <<opened, sockets, activeUsers, posts, votes, nextPostId,
                   now, sends, requests, deletions, fnIn, fnOut,
                   sessionStore, nextToken>>

\* db.getRecentPosts(100) of server.js:205 runs in the store: it resolves
\* with the rows of that moment, or rejects.
DbGetRecentPosts(i, ok) ==
    /\ i \in 1..Len(loads)
    /\ loads[i].pc = "read"
    /\ loads' = [loads EXCEPT ![i] =
                    IF ok
                    THEN [@ EXCEPT !.pc = "emit",
                                   !.allPosts = getRecentPosts(RecentLimit)]
                    ELSE [@ EXCEPT !.pc = "error"]]
    /\ emitted' = <<>>
    /\ last' = NoSteps
    /\ UNCHANGED <<opened, sockets, activeUsers, timers, posts, votes,
                   nextPostId, now, sends, requests, deletions, fnIn, fnOut,
                   sessionStore, nextToken>>

\* server.js:208-210
FilterPosts(allPosts, user) ==
    SelectSeq(allPosts, LAMBDA post : SnapshotMatches(post.channel, user.channel))

\* A variant of LoadFailed that tells every connected socket.
LoadFailedToAll(load) ==
    IoEmit("error", [text |-> "Failed to load messages"])

\* server.js:213-216
LoadFailed(load) ==
    <<Event(load.conn, "error", [text |-> "Failed to load messages"])>>

\* sendFilteredPosts after its await (server.js:207-216), but for the
\* delivery log.
LoadResumeStep(i) ==
    /\ i \in 1..Len(loads)
    /\ loads[i].pc \in {"emit", "error"}
    /\ emitted' =
         IF loads[i].pc = "emit"
         THEN <<Event(loads[i].conn, "posts",
                      [list |-> FilterPosts(loads[i].allPosts, loads[i].user)])>>
         ELSE LoadFailed(loads[i])
    /\ last' = NoSteps
    /\ loads' = Remove(loads, i)
    /\ UNCHANGED <<opened, sockets, activeUsers, timers, posts, votes,
                   nextPostId, now, sends, requests, deletions>>

\* sendFilteredPosts after its await (server.js:207-216).
LoadResume(i) ==
    /\ LoadResumeStep(i)
    /\ UNCHANGED <<fnIn, fnOut, sessionStore, nextToken>>

\* server.js:135-145
NewPost(user, messageData) ==
    [id |-> nextPostId, sessionId |-> user.sessionId,
     displayName |-> user.displayName, message |-> messageData.message,
     image |-> IF Truthy(messageData.image) THEN messageData.image ELSE JsNull,
     latitude |-> 0, longitude |-> 0,
     channel |-> JsString(normalizeChannel(user.channel)),
     timestamp |-> Date]

\* A variant of NotConnected that tells the client nothing.
NotConnectedSilent(c) == <<>>

\* server.js:129-132
NotConnected(c) == <<Event(c, "error", [text |-> "Not connected"])>>

\* server.js:127-150: the handler up to its await, with as many handlers
\* suspended at the store at a time as there are slots.
SendMessageWithin(c, messageData, slots) ==
    /\ c \in opened
    /\ IF c \notin DOMAIN activeUsers
       THEN /\ emitted' = NotConnected(c)
            /\ UNCHANGED <<sends, nextPostId>>
       ELSE /\ nextPostId <= MaxPosts
            /\ Cardinality(sends) < Cardinality(slots)
            /\ sends' = sends \cup {[conn |-> c, pc |-> "insert",
                                     post |-> NewPost(activeUsers[c], messageData)]}
            /\ nextPostId' = nextPostId + 1
            /\ emitted' = <<>>
    /\ last' = NoSteps
    /\ UNCHANGED <<opened, sockets, activeUsers, timers, posts, votes, now,
                   loads, requests, deletions, fnIn, fnOut,
                   sessionStore, nextToken>>

\* server.js:127-150 with one handler suspended at the store at a time.
SendMessage(c, messageData) == SendMessageWithin(c, messageData, SendSlots)

\* A variant of DbCreatePost whose rejection is taken for a success.
DbCreatePostUnchecked(s, ok) ==
    /\ s \in sends
    /\ s.pc = "insert"
    /\ posts' = IF ok THEN Append(posts, PostRow(s.post, now)) ELSE posts
    /\ sends' = (sends \ {s}) \cup {[s EXCEPT !.pc = "broadcast"]}
    /\ emitted' = <<>>
    /\ last' = NoSteps
    /\ UNCHANGED <<opened, sockets, activeUsers, timers, votes, nextPostId,
                   now, loads, requests, deletions, fnIn, fnOut,
                   sessionStore, nextToken>>

\* db.createPost(post) of server.js:150 runs in the store.
DbCreatePost(s, ok) ==
    /\ s \in sends
    /\ s.pc = "insert"
    /\ posts' = IF ok THEN Append(posts, PostRow(s.post, now)) ELSE posts
    /\ sends' = (sends \ {s}) \cup
                  {[s EXCEPT !.pc = IF ok THEN "broadcast" ELSE "error"]}
    /\ emitted' = <<>>
    /\ last' = NoSteps
    /\ UNCHANGED <<opened, sockets, activeUsers, timers, votes, nextPostId,
                   now, loads, requests, deletions, fnIn, fnOut,
                   sessionStore, nextToken>>

\* server.js:220-233.  The Map is walked in insertion order, which is the
\* order of the socket ids; io.to(socketId).emit reaches that one socket.
RECURSIVE BroadcastOver(_, _)
BroadcastOver(ids, post) ==
    IF ids = <<>> THEN <<>>
    ELSE LET user == activeUsers[Head(ids)]
         IN  (IF FanoutMatches(post.channel, user.channel)
              THEN <<Event(Head(ids), "newPost", post)>>
              ELSE <<>>) \o BroadcastOver(Tail(ids), post)

\* A variant of broadcastToRelevantUsers that skips a participant whose
\* snapshot is being loaded.
broadcastToSettledUsers(post) ==
    BroadcastOver(SetToSeq({c \in DOMAIN activeUsers :
                              \A i \in 1..Len(loads) : loads[i].conn # c}),
                  post)

\* A variant of broadcastToRelevantUsers without the channel filter.
broadcastToAllUsers(post) ==
    LET ids == SetToSeq(DOMAIN activeUsers)
    IN  [i \in 1..Len(ids) |-> Event(ids[i], "newPost", post)]

\* A variant of broadcastToRelevantUsers that also emits to the socket of
\* the author when it is no longer registered.
broadcastAlsoToAuthor(post) ==
    BroadcastOver(SetToSeq(DOMAIN activeUsers), post)
       \o (IF post.sessionId[2] \in DOMAIN activeUsers THEN <<>>
           ELSE <<Event(post.sessionId[2], "newPost", post)>>)

broadcastToRelevantUsers(post) ==
    BroadcastOver(SetToSeq(DOMAIN activeUsers), post)

\* A variant of SendFailed that broadcasts the post all the same.
SendFailedBroadcast(s) ==
    broadcastToRelevantUsers(s.post)
       \o <<Event(s.conn, "error", [text |-> "Failed to send message"])>>

\* server.js:164-167
SendFailed(s) ==
    <<Event(s.conn, "error", [text |-> "Failed to send message"])>>

\* A variant of SendResumeStep whose fan-out yields to the event loop after
\* its first recipient and serves the others when it is resumed.
SendResumeStepYielding(s) ==
    /\ s \in sends
    /\ s.pc \in {"broadcast", "rest", "error"}
    /\ LET all == broadcastToRelevantUsers(s.post)
       IN  IF s.pc = "broadcast" /\ Len(all) > 1
           THEN /\ emitted' = <<Head(all)>>
                /\ sends' = (sends \ {s}) \cup {[s EXCEPT !.pc = "rest"]}
           ELSE /\ emitted' = IF s.pc = "broadcast" THEN all
                              ELSE IF s.pc = "rest"
                              THEN SelectSeq(all, LAMBDA e : e.to # 1)
                              ELSE SendFailed(s)
                /\ sends' = sends \ {s}
    /\ last' = NoSteps
    /\ UNCHANGED <<opened, sockets, activeUsers, timers, posts, votes,
                   nextPostId, now, loads, requests, deletions>>

\* A variant of SendResumeStep whose fan-out drops from the registry the
\* participants it does not send the post to.
SendResumeStepPruning(s) ==
    /\ s \in sends
    /\ s.pc \in {"broadcast", "error"}
    /\ emitted' =
         IF s.pc = "broadcast"
         THEN broadcastToRelevantUsers(s.post) \o
              notifyAdminPanel("newMessage",
                  [id |-> s.post.id, displayName |-> s.post.displayName,
                   channel |-> s.post.channel, timestamp |-> s.post.timestamp,
                   hasImage |-> Truthy(s.post.image)])
         ELSE SendFailed(s)
    /\ activeUsers' =
         IF s.pc = "broadcast"
         THEN [c \in {k \in DOMAIN activeUsers :
                        FanoutMatches(s.post.channel, activeUsers[k].channel)}
                  |-> activeUsers[c]]
         ELSE activeUsers
    /\ last' = NoSteps
    /\ sends' = sends \ {s}
    /\ UNCHANGED <<opened, sockets, timers, posts, votes,
                   nextPostId, now, loads, requests, deletions>>

\* server.js:152-167: the handler after its await, but for the delivery log.
SendResumeStep(s) ==
    /\ s \in sends
    /\ s.pc \in {"broadcast", "error"}
    /\ emitted' =
         IF s.pc = "broadcast"
         THEN broadcastToRelevantUsers(s.post) \o
              notifyAdminPanel("newMessage",
                  [id |-> s.post.id, displayName |-> s.post.displayName,
                   channel |-> s.post.channel, timestamp |-> s.post.timestamp,
                   hasImage |-> Truthy(s.post.image)])
         ELSE SendFailed(s)
    /\ last' = NoSteps
    /\ sends' = sends \ {s}
    /\ UNCHANGED <<opened, sockets, activeUsers, timers, posts, votes,
                   nextPostId, now, loads, requests, deletions>>

\* server.js:152-167: the handler after its await.
SendResume(s) ==
    /\ SendResumeStep(s)
    /\ UNCHANGED <<fnIn, fnOut, sessionStore, nextToken>>

\* A second passes.
Tick ==
    /\ now < MaxClock
    /\ now' = now + 1
    /\ emitted' = <<>>
    /\ last' = NoSteps
    /\ UNCHANGED <<opened, sockets, activeUsers, timers, posts, votes,
                   nextPostId, sends, loads, requests, deletions, fnIn, fnOut,
                   sessionStore, nextToken>>

----------------------------------------------------------------------------
(* Votes and deletions (server.js:354-377, 403-485; database.js:446-672).  *)
(* Each action is one SQL statement together with what its callback runs   *)
(* before the handler is suspended again.                                  *)

\* database.js:663
DownvoteThreshold == 3

\* The client of an HTTP request, as a destination of events.
HttpClient == 0

\* res.status(status).json(body)
Respond(status, body) ==
    Event(HttpClient, "response", [status |-> status, body |-> body])

PostStored(postId) == \E r \in 1..Len(posts) : posts[r].id = postId

VotesOf(postId) == {v \in votes : v.post_id = postId}

\* database.js:543-545: SELECT vote_type FROM votes WHERE post_id, session_id
SelectVote(postId, sessionId) ==
    IF \E v \in VotesOf(postId) : v.session_id = sessionId
    THEN (CHOOSE v \in VotesOf(postId) : v.session_id = sessionId).vote_type
    ELSE "none"

\* A variant of addVoteWrite whose INSERT ignores the UNIQUE constraint.
addVoteWriteNoUnique(postId, sessionId, voteType, existing) ==
    LET mine == {v \in VotesOf(postId) : v.session_id = sessionId}
        row == [post_id |-> postId, session_id |-> sessionId,
                vote_type |-> voteType]
    IN  IF existing = voteType
        THEN [ok |-> TRUE, votes |-> votes \ mine, action |-> "removed"]
        ELSE IF existing # "none"
        THEN [ok |-> TRUE,
              votes |-> (votes \ mine) \cup (IF mine = {} THEN {} ELSE {row}),
              action |-> "updated"]
        ELSE [ok |-> TRUE, votes |-> votes \cup {row}, action |-> "added"]

\* A variant of addVoteWrite that keeps a vote cast a second time.
addVoteWriteKeeps(postId, sessionId, voteType, existing) ==
    LET mine == {v \in VotesOf(postId) : v.session_id = sessionId}
        row == [post_id |-> postId, session_id |-> sessionId,
                vote_type |-> voteType]
    IN  IF existing = voteType
        THEN [ok |-> TRUE, votes |-> votes, action |-> "removed"]
        ELSE IF existing # "none"
        THEN [ok |-> TRUE,
              votes |-> (votes \ mine) \cup (IF mine = {} THEN {} ELSE {row}),
              action |-> "updated"]
        ELSE [ok |-> mine = {}, votes |-> votes \cup {row},
              action |-> "added"]

\* database.js:552-603: the statement addVote runs after its SELECT, chosen
\* by the row the SELECT found.  INSERT fails on UNIQUE(post_id, session_id)
\* (database.js:60); DELETE and UPDATE succeed on zero rows.
addVoteWrite(postId, sessionId, voteType, existing) ==
    LET mine == {v \in VotesOf(postId) : v.session_id = sessionId}
        row == [post_id |-> postId, session_id |-> sessionId,
                vote_type |-> voteType]
    IN  IF existing = voteType
        THEN [ok |-> TRUE, votes |-> votes \ mine, action |-> "removed"]
        ELSE IF existing # "none"
        THEN [ok |-> TRUE,
              votes |-> (votes \ mine) \cup (IF mine = {} THEN {} ELSE {row}),
              action |-> "updated"]
        ELSE [ok |-> mine = {}, votes |-> votes \cup {row},
              action |-> "added"]

\* database.js:608-631
getPostVoteCounts(postId) ==
    [up |-> Cardinality({v \in VotesOf(postId) : v.vote_type = "up"}),
     down |-> Cardinality({v \in VotesOf(postId) : v.vote_type = "down"})]

\* A variant of checkPostForAutoDelete that asks for more than the threshold.
checkPostForAutoDeleteAbove(postId) ==
    LET n == Cardinality({v.session_id :
                            v \in {w \in VotesOf(postId) : w.vote_type = "down"}})
    IN  [shouldDelete |-> n > DownvoteThreshold, downvoteCount |-> n]

\* A variant of checkPostForAutoDelete that counts the voters of either
\* type.
checkPostForAutoDeleteAnyType(postId) ==
    LET n == Cardinality({v.session_id : v \in VotesOf(postId)})
    IN  [shouldDelete |-> n >= DownvoteThreshold, downvoteCount |-> n]

\* database.js:649-672
checkPostForAutoDelete(postId) ==
    LET n == Cardinality({v.session_id :
                            v \in {w \in VotesOf(postId) : w.vote_type = "down"}})
    IN  [shouldDelete |-> n >= DownvoteThreshold, downvoteCount |-> n]

\* A variant of deletePostById that reports a deletion whatever it found.
deletePostByIdAlways(postId) ==
    [deleted |-> TRUE,
     posts |-> SelectSeq(posts, LAMBDA row : row.id # postId)]

\* A variant of deletePostById that deletes nothing.
deletePostByIdNever(postId) == [deleted |-> FALSE, posts |-> posts]

\* database.js:446-460: DELETE FROM posts WHERE id = ?
deletePostById(postId) ==
    [deleted |-> PostStored(postId),
     posts |-> SelectSeq(posts, LAMBDA row : row.id # postId)]

\* database.js:59 declares votes.post_id ON DELETE CASCADE.  SQLite applies
\* it only when foreign keys are enforced, which the code never asks for
\* and which therefore depends on the build of the library: cascade is
\* either outcome.
VotesAfterDelete(postId, deleted, cascade) ==
    IF deleted /\ cascade THEN votes \ VotesOf(postId) ELSE votes

CountDeletion(postId) ==
    [q \in DOMAIN deletions \cup {postId} |->
        (IF q \in DOMAIN deletions THEN deletions[q] ELSE 0)
           + (IF q = postId THEN 1 ELSE 0)]

\* A variant of EmitVoteUpdate that reaches the public channel only.
EmitVoteUpdateToChannel(r, voteCounts) ==
    LET ids == SetToSeq({c \in DOMAIN activeUsers :
                           activeUsers[c].channel = JsString(<<>>)})
    IN  [i \in 1..Len(ids) |->
            Event(ids[i], "voteUpdate",
                  [postId |-> r.postId, voteCounts |-> voteCounts,
                   action |-> r.action, voteType |-> r.voteType])]

\* server.js:463-469
EmitVoteUpdate(r, voteCounts) ==
    IoEmit("voteUpdate",
           [postId |-> r.postId, voteCounts |-> voteCounts,
            action |-> r.action, voteType |-> r.voteType])

\* server.js:463-485: the handler's end when the post is not auto-deleted.
VoteUpdateOutcome(r, voteCounts) ==
    EmitVoteUpdate(r, voteCounts)
       \o notifyAdminPanel("voteActivity",
             [postId |-> r.postId, voteType |-> r.voteType,
              action |-> r.action, voteCounts |-> voteCounts])
       \o <<Respond(200, [success |-> TRUE, action |-> r.action,
                          voteType |-> r.voteType, voteCounts |-> voteCounts,
                          autoDeleted |-> FALSE])>>

\* A variant of EmitAutoDeleted that leaves the downvote count out.
EmitAutoDeletedNoCount(postId, downvoteCount) ==
    IoEmit("messageDeleted",
           [messageId |-> postId, reason |-> "auto-moderation"])

\* server.js:437-441
EmitAutoDeleted(postId, downvoteCount) ==
    IoEmit("messageDeleted",
           [messageId |-> postId, reason |-> "auto-moderation",
            downvoteCount |-> downvoteCount])

\* server.js:437-459
AutoDeletedOutcome(r) ==
    EmitAutoDeleted(r.postId, r.downvoteCount)
       \o notifyAdminPanel("messageAutoDeleted",
             [messageId |-> r.postId, reason |-> "auto-moderation",
              downvoteCount |-> r.downvoteCount])
       \o <<Respond(200, [success |-> TRUE, action |-> r.action,
                          voteType |-> r.voteType,
                          voteCounts |-> r.voteCounts,
                          autoDeleted |-> TRUE])>>

\* server.js:363
EmitAdminDeleted(postId) ==
    IoEmit("messageDeleted", [messageId |-> postId])

\* server.js:359-369
AdminDeletedOutcome(r) ==
    EmitAdminDeleted(r.postId)
       \o notifyAdminPanel("messageDeleted",
             [messageId |-> r.postId, deletedBy |-> "admin"])
       \o <<Respond(200, [deleted |-> TRUE])>>

NoCounts == [up |-> 0, down |-> 0]

FreeSlots == RequestSlots \ DOMAIN requests

Suspend(slot, r) ==
    [s \in DOMAIN requests \cup {slot} |->
        IF s = slot THEN r ELSE requests[s]]

Finish(slot) == [s \in DOMAIN requests \ {slot} |-> requests[s]]

\* server.js:403-421: a well-formed POST /api/vote/:postId up to the SELECT
\* of addVote.  The id in the URL is the id of the row it names.
VoteRequest(sessionId, postId, voteType) ==
    /\ FreeSlots # {}
    /\ LET slot == CHOOSE s \in FreeSlots : \A o \in FreeSlots : s <= o
       IN  requests' =
             Suspend(slot, [kind |-> "vote", postId |-> postId,
                            sessionId |-> sessionId, voteType |-> voteType,
                            pc |-> "select", existing |-> "none",
                            action |-> "none", voteCounts |-> NoCounts,
                            downvoteCount |-> 0])
    /\ emitted' = <<>>
    /\ last' = NoSteps
    /\ UNCHANGED <<opened, sockets, activeUsers, timers, posts, votes,
                   nextPostId, now, sends, loads, deletions, fnIn, fnOut,
                   sessionStore, nextToken>>

Str_up == <<"u", "p">>
Str_down == <<"d", "o", "w", "n">>
Str_sideways == <<"s", "i", "d", "e", "w", "a", "y", "s">>

\* req.params.postId naming the row with that id.
PostIdParam(postId) == JsString(<<postId>>)

\* A variant of VoteInputError that takes any vote type that is not blank.
VoteInputErrorAnyType(postId, voteType, sessionId) ==
    IF ~Truthy(postId) \/ ~Truthy(voteType) \/ ~Truthy(sessionId)
    THEN "Missing required fields: postId, voteType, sessionId"
    ELSE "none"

\* server.js:408-415: what the validation answers, "none" when it passes.
VoteInputError(postId, voteType, sessionId) ==
    IF ~Truthy(postId) \/ ~Truthy(voteType) \/ ~Truthy(sessionId)
    THEN "Missing required fields: postId, voteType, sessionId"
    ELSE IF voteType.s \notin {Str_up, Str_down}
    THEN "Invalid vote type. Must be \"up\" or \"down\""
    ELSE "none"

\* server.js:403-421: POST /api/vote/:postId with any body.
PostVote(postId, voteType, sessionId) ==
    LET error == VoteInputError(postId, voteType, sessionId)
    IN  IF error # "none"
        THEN /\ emitted' = <<Respond(400, [error |-> error])>>
             /\ last' = NoSteps
             /\ UNCHANGED <<opened, sockets, activeUsers, timers, posts, votes,
                            nextPostId, now, sends, loads, requests, deletions,
                            fnIn, fnOut, sessionStore, nextToken>>
        ELSE VoteRequest(sessionId.s, postId.s[1],
                         CASE voteType.s = Str_up -> "up"
                           [] voteType.s = Str_down -> "down"
                           [] OTHER -> "other")

\* The socket id of connection c as the client holds it (this.socket.id).
SocketId(c) == <<"socket", c>>

\* public/app.js:962-974: the page of connection c posts a vote and names
\* itself by its socket id.
handleVote(c, postId, voteType) ==
    VoteRequest(SocketId(c), postId, voteType)

\* server.js:481-484
VoteFailed(slot) ==
    /\ requests' = Finish(slot)
    /\ emitted' = <<Respond(500, [error |-> "Failed to process vote"])>>
    /\ UNCHANGED <<posts, votes, deletions>>

\* database.js:543-549: the SELECT of addVote.
VoteSelect(slot, ok) ==
    /\ slot \in DOMAIN requests
    /\ requests[slot].kind = "vote"
    /\ requests[slot].pc = "select"
    /\ LET r == requests[slot]
       IN  IF ok
           THEN /\ requests' =
                     [requests EXCEPT
                        ![slot].pc = "write",
                        ![slot].existing = SelectVote(r.postId, r.sessionId)]
                /\ emitted' = <<>>
                /\ UNCHANGED <<posts, votes, deletions>>
           ELSE VoteFailed(slot)
    /\ last' = NoSteps
    /\ UNCHANGED <<opened, sockets, activeUsers, timers, nextPostId, now,
                   sends, loads, fnIn, fnOut, sessionStore, nextToken>>

\* database.js:552-603, server.js:424: the DELETE, UPDATE or INSERT of
\* addVote; the handler goes on to getPostVoteCounts.
VoteWrite(slot, ok) ==
    /\ slot \in DOMAIN requests
    /\ requests[slot].kind = "vote"
    /\ requests[slot].pc = "write"
    /\ LET r == requests[slot]
           w == addVoteWrite(r.postId, r.sessionId, r.voteType, r.existing)
       IN  IF ok /\ w.ok
           THEN /\ votes' = w.votes
                /\ requests' = [requests EXCEPT ![slot].pc = "counts",
                                                ![slot].action = w.action]
                /\ emitted' = <<>>
                /\ UNCHANGED <<posts, deletions>>
           ELSE VoteFailed(slot)
    /\ last' = NoSteps
    /\ UNCHANGED <<opened, sockets, activeUsers, timers, nextPostId, now,
                   sends, loads, fnIn, fnOut, sessionStore, nextToken>>

\* database.js:608-631, server.js:427-430, 463-485: getPostVoteCounts; an
\* up vote ends the handler here, a down vote goes on to the threshold
\* check.
VoteCounts(slot, ok) ==
    /\ slot \in DOMAIN requests
    /\ requests[slot].kind = "vote"
    /\ requests[slot].pc = "counts"
    /\ LET r == requests[slot]
           voteCounts == getPostVoteCounts(r.postId)
       IN  IF ~ok
           THEN VoteFailed(slot)
           ELSE IF r.voteType = "down"
           THEN /\ requests' = [requests EXCEPT ![slot].pc = "check",
                                                ![slot].voteCounts = voteCounts]
                /\ emitted' = <<>>
                /\ UNCHANGED <<posts, votes, deletions>>
           ELSE /\ requests' = Finish(slot)
                /\ emitted' = VoteUpdateOutcome(r, voteCounts)
                /\ UNCHANGED <<posts, votes, deletions>>
    /\ last' = NoSteps
    /\ UNCHANGED <<opened, sockets, activeUsers, timers, nextPostId, now,
                   sends, loads, fnIn, fnOut, sessionStore, nextToken>>

\* database.js:649-672, server.js:431-437, 463-485: checkPostForAutoDelete.
VoteCheck(slot, ok) ==
    /\ slot \in DOMAIN requests
    /\ requests[slot].kind = "vote"
    /\ requests[slot].pc = "check"
    /\ LET r == requests[slot]
           autoDeleteCheck == checkPostForAutoDelete(r.postId)
       IN  IF ~ok
           THEN VoteFailed(slot)
           ELSE IF autoDeleteCheck.shouldDelete
           THEN /\ requests' =
                     [requests EXCEPT
                        ![slot].pc = "delete",
                        ![slot].downvoteCount = autoDeleteCheck.downvoteCount]
                /\ emitted' = <<>>
                /\ UNCHANGED <<posts, votes, deletions>>
           ELSE /\ requests' = Finish(slot)
                /\ emitted' = VoteUpdateOutcome(r, r.voteCounts)
                /\ UNCHANGED <<posts, votes, deletions>>
    /\ last' = NoSteps
    /\ UNCHANGED <<opened, sockets, activeUsers, timers, nextPostId, now,
                   sends, loads, fnIn, fnOut, sessionStore, nextToken>>

\* database.js:446-460, server.js:437-485: deletePostById for a vote that
\* breached the threshold.
VoteDelete(slot, ok, cascade) ==
    /\ slot \in DOMAIN requests
    /\ requests[slot].kind = "vote"
    /\ requests[slot].pc = "delete"
    /\ LET r == requests[slot]
           deleteResult == deletePostById(r.postId)
       IN  IF ~ok
           THEN VoteFailed(slot)
           ELSE /\ requests' = Finish(slot)
                /\ posts' = deleteResult.posts
                /\ votes' = VotesAfterDelete(r.postId, PostStored(r.postId),
                                             cascade)
                /\ IF deleteResult.deleted
                   THEN /\ emitted' = AutoDeletedOutcome(r)
                        /\ deletions' = CountDeletion(r.postId)
                   ELSE /\ emitted' = VoteUpdateOutcome(r, r.voteCounts)
                        /\ UNCHANGED deletions
    /\ last' = NoSteps
    /\ UNCHANGED <<opened, sockets, activeUsers, timers, nextPostId, now,
                   sends, loads, fnIn, fnOut, sessionStore, nextToken>>

\* server.js:354-357: DELETE /api/admin/messages/:messageId of a request
\* that passed requireAdminAuth, up to deletePostById.
AdminDeleteRequest(postId) ==
    /\ FreeSlots # {}
    /\ LET slot == CHOOSE s \in FreeSlots : \A o \in FreeSlots : s <= o
       IN  requests' =
             Suspend(slot, [kind |-> "adminDelete", postId |-> postId,
                            sessionId |-> <<"session", 0>>,
                            voteType |-> "none", pc |-> "delete",
                            existing |-> "none", action |-> "none",
                            voteCounts |-> NoCounts, downvoteCount |-> 0])
    /\ emitted' = <<>>
    /\ last' = NoSteps
    /\ UNCHANGED <<opened, sockets, activeUsers, timers, posts, votes,
                   nextPostId, now, sends, loads, deletions, fnIn, fnOut,
                   sessionStore, nextToken>>

\* database.js:446-460, server.js:357-376
AdminDelete(slot, ok, cascade) ==
    /\ slot \in DOMAIN requests
    /\ requests[slot].kind = "adminDelete"
    /\ requests[slot].pc = "delete"
    /\ LET r == requests[slot]
           result == deletePostById(r.postId)
       IN  IF ~ok
           THEN /\ emitted' =
                     <<Respond(500, [error |-> "Failed to delete message"])>>
                /\ UNCHANGED <<posts, votes, deletions>>
           ELSE /\ posts' = result.posts
                /\ votes' = VotesAfterDelete(r.postId, PostStored(r.postId),
                                             cascade)
                /\ IF result.deleted
                   THEN /\ emitted' = AdminDeletedOutcome(r)
                        /\ deletions' = CountDeletion(r.postId)
                   ELSE /\ emitted' =
                             <<Respond(404, [error |-> "Message not found"])>>
                        /\ UNCHANGED deletions
    /\ requests' = Finish(slot)
    /\ last' = NoSteps
    /\ UNCHANGED <<opened, sockets, activeUsers, timers, nextPostId, now,
                   sends, loads, fnIn, fnOut, sessionStore, nextToken>>

----------------------------------------------------------------------------
(* The geofenced revision of the server (src/unnamed/part_002) and         *)
(* src/utils/location.js.  Numbers are fixed point: coordinates in half    *)
(* degrees, angles in millionths of a radian, distances in millionths of   *)
(* a mile, the radius in miles.  The series below are those of sin, cos    *)
(* and atan cut after their second term, which is exact to a thousandth    *)
(* for points a few degrees apart.                                         *)

JsNumber(n) == [t |-> "number", n |-> n]

\* JavaScript truthiness of undefined, null, strings and numbers.
JsTruthy(v) ==
    CASE v.t = "string" -> v.s # <<>>
      [] v.t = "number" -> v.n # 0
      [] OTHER -> FALSE

\* a || b
Or(a, b) == IF JsTruthy(a) THEN a ELSE b

\* location.js:33-35, of an angle in half degrees: pi / 360 = 0.008727.
toRadians(halfDegrees) == halfDegrees * 8727

RECURSIVE Newton(_, _)
Newton(n, x) ==
    LET y == (x + n \div x) \div 2
    IN  IF y >= x THEN x ELSE Newton(n, y)

\* Math.sqrt, rounded down.
Sqrt(n) == IF n = 0 THEN 0 ELSE Newton(n, n)

\* x * x * x of a number in millionths.
Cubed(x) == (((x * x) \div 1000000) * x) \div 1000000

\* Math.sin, Math.cos and Math.atan of millionths, in millionths.
Sin(x) == x - Cubed(x) \div 6
Cos(x) == 1000000 - (x * x) \div 2000000
Atan(z) == z - Cubed(z) \div 3

\* location.js:14
EarthRadius == 3959

\* location.js:13-26.  a is kept in units of 10^-12; Math.atan2(y, x) of
\* two positive numbers is Math.atan(y / x).
calculateDistance(lat1, lon1, lat2, lon2) ==
    LET dLat == toRadians(lat2 - lat1)
        dLon == toRadians(lon2 - lon1)
        sLat == Sin(dLat \div 2)
        sLon == Sin(dLon \div 2)
        cc == (Cos(toRadians(lat1)) \div 1000) * (Cos(toRadians(lat2)) \div 1000)
        a == sLat * sLat + (cc \div 1000) * ((sLon * sLon) \div 1000)
        y == Sqrt(a)
        x == Sqrt((1000000 - a \div 1000000) * 100)
        c == 2 * Atan((y * 10000) \div x)
    IN  EarthRadius * c

\* part_002:54-63
NewUserGeo(c) ==
    [id |-> c, sessionId |-> <<"session", c>>,
     displayName |-> JsString(Str_Anonymous),
     latitude |-> JsNull, longitude |-> JsNull, radius |-> JsNumber(10),
     channel |-> JsString(<<>>), connectedAt |-> Date]

\* part_002:73-77: the user object after the merge.
MergeSettingsGeo(user, settings) ==
    [user EXCEPT
       !.displayName = Or(settings.displayName, user.displayName),
       !.latitude = Or(settings.latitude, user.latitude),
       !.longitude = Or(settings.longitude, user.longitude),
       !.radius = Or(settings.radius, user.radius),
       !.channel = IF settings.channel.t # "undefined"
                   THEN settings.channel ELSE user.channel]

\* part_002:177-190: whether the fan-out emits the post to the user.
GeoFanoutMatches(post, user) ==
    IF ~JsTruthy(user.latitude) \/ ~JsTruthy(user.longitude) THEN FALSE
    ELSE IF post.channel # user.channel THEN FALSE
    ELSE calculateDistance(user.latitude.n, user.longitude.n,
                           post.latitude.n, post.longitude.n)
            <= user.radius.n * 1000000

\* part_002:145-164: whether the snapshot of the user holds the post.
GeoSnapshotMatches(post, user) ==
    IF ~JsTruthy(user.latitude) \/ ~JsTruthy(user.longitude) THEN FALSE
    ELSE IF post.channel # user.channel THEN FALSE
    ELSE calculateDistance(user.latitude.n, user.longitude.n,
                           post.latitude.n, post.longitude.n)
            <= user.radius.n * 1000000

----------------------------------------------------------------------------
(* The chat specification.                                                 *)

Init ==
    /\ opened = {}
    /\ sockets = {}
    /\ activeUsers = <<>>
    /\ timers = {}
    /\ posts = <<>>
    /\ votes = {}
    /\ nextPostId = 1
    /\ now = 0
    /\ sends = {}
    /\ loads = <<>>
    /\ requests = <<>>
    /\ emitted = <<>>
    /\ last = NoSteps
    /\ deletions = <<>>
    /\ fnIn = <<>>
    /\ fnOut = <<>>
    /\ sessionStore = <<>>
    /\ nextToken = 1

\* What the clients send under Spec: a blank channel or a name.
ChannelInputs == {JsString(<<" ">>), JsString(Str_alpha)}

DisplayNameInputs == {JsUndefined}

SettingsInputs ==
    {[displayName |-> d, channel |-> ch] :
        d \in DisplayNameInputs, ch \in ChannelInputs}

MessageInputs == {[message |-> JsString(<<"h", "i">>), image |-> JsUndefined]}

ChatConns == {1, 2}

\* Two clients; every store call may fail; events may still be handled for
\* a socket that has been deregistered.  The clock stands still.
Next ==
    \/ \E c \in ChatConns : Connect(c)
    \/ \E c \in ChatConns : \E s \in SettingsInputs : UpdateSettings(c, s)
    \/ \E c \in ChatConns : \E m \in MessageInputs : SendMessage(c, m)
    \/ \E c \in ChatConns : Disconnect(c)
    \/ \E c \in ChatConns : TimerFire(c)
    \/ \E i \in LoadSlots : \E ok \in BOOLEAN : DbGetRecentPosts(i, ok)
    \/ \E i \in LoadSlots : LoadResume(i)
    \/ \E s \in sends : \E ok \in BOOLEAN : DbCreatePost(s, ok)
    \/ \E s \in sends : SendResume(s)

Spec == Init /\ [][Next]_vars

----------------------------------------------------------------------------
(* The snapshot specification: one client that moves between the public   *)
(* channel and "alpha" and posts in both while the clock advances.         *)

SnapshotSettings ==
    {[displayName |-> JsUndefined, channel |-> ch] :
        ch \in {JsUndefined, JsNull, JsString(<<>>), JsString(<<" ">>),
                JsString(Str_alpha)}}

\* The database file outlives the process: the store may hold rows of an
\* earlier run when the server starts.
PriorRow(id, channel) ==
    [id |-> id, session_id |-> <<"session", 0>>,
     display_name |-> JsString(Str_Anonymous),
     message |-> JsString(<<"h", "i">>), image |-> JsNull,
     latitude |-> 0, longitude |-> 0, channel |-> JsString(channel),
     timestamp |-> Date, created_at |-> 0]

InitSnapshot ==
    /\ opened = {}
    /\ sockets = {}
    /\ activeUsers = <<>>
    /\ timers = {}
    /\ posts = <<PriorRow(-2, <<>>), PriorRow(-1, Str_alpha)>>
    /\ votes = {}
    /\ nextPostId = 1
    /\ now = 0
    /\ sends = {}
    /\ loads = <<>>
    /\ requests = <<>>
    /\ emitted = <<>>
    /\ last = NoSteps
    /\ deletions = <<>>
    /\ fnIn = <<>>
    /\ fnOut = <<>>
    /\ sessionStore = <<>>
    /\ nextToken = 1

NextSnapshot ==
    \/ Connect(1)
    \/ \E s \in SnapshotSettings : UpdateSettings(1, s)
    \/ \E m \in MessageInputs : SendMessage(1, m)
    \/ Disconnect(1)
    \/ TimerFire(1)
    \/ \E i \in LoadSlots : \E ok \in BOOLEAN : DbGetRecentPosts(i, ok)
    \/ \E i \in LoadSlots : LoadResume(i)
    \/ \E s \in sends : \E ok \in BOOLEAN : DbCreatePost(s, ok)
    \/ \E s \in sends : SendResume(s)
    \/ Tick

SpecSnapshot == InitSnapshot /\ [][NextSnapshot]_vars

----------------------------------------------------------------------------
(* The settings specification: one client that sends every kind of         *)
(* displayName and channel and posts in between.                           *)

\* Updates of the displayName alone, of the channel alone, and of both.
RichSettings ==
    {[displayName |-> d, channel |-> JsUndefined] :
        d \in {JsUndefined, JsString(<<>>), JsString(<<" ">>),
               JsString(Str_Bob)}}
    \cup
    {[displayName |-> JsUndefined, channel |-> ch] :
        ch \in {JsNull, JsString(<<>>), JsString(<<" ">>),
                JsString(Str_alpha), JsString(Str_sp_alpha_sp)}}
    \cup
    {[displayName |-> JsString(Str_Bob), channel |-> JsString(Str_sp_alpha_sp)]}

NextSettings ==
    \/ Connect(1)
    \/ \E s \in RichSettings : UpdateSettings(1, s)
    \/ \E m \in MessageInputs : SendMessage(1, m)
    \/ Disconnect(1)
    \/ TimerFire(1)
    \/ \E i \in LoadSlots : \E ok \in BOOLEAN : DbGetRecentPosts(i, ok)
    \/ \E i \in LoadSlots : LoadResume(i)
    \/ \E s \in sends : \E ok \in BOOLEAN : DbCreatePost(s, ok)
    \/ \E s \in sends : SendResume(s)

SpecSettings == Init /\ [][NextSettings]_vars

----------------------------------------------------------------------------
(* The payload specification: two clients send updateSettings payloads     *)
(* that carry, besides displayName and channel or instead of them, fields  *)
(* the participant record has (sessionId, id, connectedAt) and one it has  *)
(* not (latitude).                                                         *)

PayloadSettings ==
    {[displayName |-> d, channel |-> ch, sessionId |-> x, id |-> x,
      connectedAt |-> x, latitude |-> x] :
        d \in {JsUndefined, JsString(Str_Bob)},
        ch \in {JsUndefined, JsString(Str_alpha)},
        x \in {JsUndefined, JsString(<<"session", 99>>)}}

NextPayload ==
    \/ \E c \in ChatConns : Connect(c)
    \/ \E c \in ChatConns : \E s \in PayloadSettings : UpdateSettings(c, s)
    \/ \E c \in ChatConns : Disconnect(c)
    \/ \E c \in ChatConns : TimerFire(c)
    \/ \E i \in LoadSlots : \E ok \in BOOLEAN : DbGetRecentPosts(i, ok)
    \/ \E i \in LoadSlots : LoadResume(i)

SpecPayload == Init /\ [][NextPayload]_vars

----------------------------------------------------------------------------
(* The ordering specification: two clients are connected to the public     *)
(* channel and stay in it; the first sends messages one after another      *)
(* without waiting, so that two handlers are suspended at the store at a   *)
(* time; the store runs and answers its statements in any order.           *)

OrderSendSlots == {1, 2}

InitOrder ==
    /\ opened = {1, 2}
    /\ sockets = {1, 2}
    /\ activeUsers = [c \in {1, 2} |-> NewUser(c)]
    /\ timers = {}
    /\ posts = <<>>
    /\ votes = {}
    /\ nextPostId = 1
    /\ now = 0
    /\ sends = {}
    /\ loads = <<>>
    /\ requests = <<>>
    /\ emitted = <<>>
    /\ last = NoSteps
    /\ deletions = <<>>
    /\ fnIn = <<>>
    /\ fnOut = <<>>
    /\ sessionStore = <<>>
    /\ nextToken = 1

NextOrder ==
    \/ \E m \in MessageInputs : SendMessageWithin(1, m, OrderSendSlots)
    \/ \E c \in {1, 2} : Disconnect(c)
    \/ \E s \in sends : \E ok \in BOOLEAN : DbCreatePost(s, ok)
    \/ \E s \in sends : SendResume(s)

SpecOrder == InitOrder /\ [][NextOrder]_vars

\* The same with a store that answers every INSERT and an event loop that
\* runs every callback.
SpecPersist ==
    /\ InitOrder
    /\ [][NextOrder]_vars
    /\ \A id \in 1..MaxPosts :
          /\ WF_vars(\E s \in sends : \E ok \in BOOLEAN :
                        s.post.id = id /\ DbCreatePost(s, ok))
          /\ WF_vars(\E s \in sends : s.post.id = id /\ SendResume(s))

----------------------------------------------------------------------------
(* The delivery-log specification: fnOut records, oldest first, what each  *)
(* connection has been sent as `newPost` and as `posts`.  Connection 2 is  *)
(* in channel alpha and sends; connection 1 starts in the public channel   *)
(* and may switch to alpha once, which loads a snapshot.                   *)

\* What the client of e.to sees of e: the ids it is given.
Delivery(e) ==
    [to |-> e.to, event |-> e.event,
     ids |-> IF e.event = "newPost"
             THEN <<e.data.id>>
             ELSE [j \in 1..Len(e.data.list) |-> e.data.list[j].id]]

Deliveries(events) ==
    LET shown == SelectSeq(events, LAMBDA e : e.event \in {"newPost", "posts"})
    IN  [k \in 1..Len(shown) |-> Delivery(shown[k])]

\* server.js:152-167 with its deliveries logged.
SendResumeLogged(s) ==
    /\ SendResumeStep(s)
    /\ fnOut' = fnOut \o Deliveries(emitted')
    /\ UNCHANGED <<fnIn, sessionStore, nextToken>>

\* server.js:207-216 with its delivery logged.
LoadResumeLogged(i) ==
    /\ LoadResumeStep(i)
    /\ fnOut' = fnOut \o Deliveries(emitted')
    /\ UNCHANGED <<fnIn, sessionStore, nextToken>>

SwitchSettings == [displayName |-> JsUndefined, channel |-> JsString(Str_alpha)]

InitLog ==
    /\ opened = {1, 2}
    /\ sockets = {1, 2}
    /\ activeUsers = [c \in {1, 2} |->
                        IF c = 2
                        THEN [NewUser(c) EXCEPT !.channel = JsString(Str_alpha)]
                        ELSE NewUser(c)]
    /\ timers = {}
    /\ posts = <<>>
    /\ votes = {}
    /\ nextPostId = 1
    /\ now = 0
    /\ sends = {}
    /\ loads = <<>>
    /\ requests = <<>>
    /\ emitted = <<>>
    /\ last = NoSteps
    /\ deletions = <<>>
    /\ fnIn = <<>>
    /\ fnOut = <<>>
    /\ sessionStore = <<>>
    /\ nextToken = 1

NextLog ==
    \/ /\ 1 \in DOMAIN activeUsers
       /\ activeUsers[1].channel = JsString(<<>>)
       /\ UpdateSettings(1, SwitchSettings)
    \/ \E m \in MessageInputs : SendMessageWithin(2, m, OrderSendSlots)
    \/ \E c \in {1, 2} : Disconnect(c)
    \/ \E s \in sends : \E ok \in BOOLEAN : DbCreatePost(s, ok)
    \/ \E s \in sends : SendResumeLogged(s)
    \/ \E i \in LoadSlots : \E ok \in BOOLEAN : DbGetRecentPosts(i, ok)
    \/ \E i \in LoadSlots : LoadResumeLogged(i)

SpecLog == InitLog /\ [][NextLog]_vars

----------------------------------------------------------------------------
(* The chat-view specification: both clients are connected and registered  *)
(* in the public channel.  The page of connection 1 opens the chat view of *)
(* channel alpha and sends messages; connection 2 switches to alpha with   *)
(* updateSettings.  The store answers and the event loop runs every        *)
(* callback.                                                               *)

\* public/app.js:135-148 and 465-474.  The page sets its own
\* userSettings.channel and, being connected, emits `requestPosts`;
\* server.js:102-183 registers no handler for that event, so the server
\* drops it.  Not being connected, the page calls updateSettings(), which
\* emits nothing (app.js:459-463).
showChatView(c, channelName) ==
    /\ c \in opened
    /\ emitted' = <<>>
    /\ last' = Step("showChatView", c, [channel |-> channelName])
    /\ UNCHANGED <<opened, sockets, activeUsers, timers, posts, votes,
                   nextPostId, now, sends, loads, requests, deletions,
                   fnIn, fnOut, sessionStore, nextToken>>

NextChatView ==
    \/ showChatView(1, JsString(Str_alpha))
    \/ \E m \in MessageInputs : SendMessage(1, m)
    \/ /\ activeUsers[2].channel = JsString(<<>>)
       /\ UpdateSettings(2, SwitchSettings)
    \/ \E s \in sends : \E ok \in BOOLEAN : DbCreatePost(s, ok)
    \/ \E s \in sends : SendResume(s)
    \/ \E i \in LoadSlots : \E ok \in BOOLEAN : DbGetRecentPosts(i, ok)
    \/ \E i \in LoadSlots : LoadResume(i)

SpecChatView ==
    /\ InitOrder
    /\ [][NextChatView]_vars
    /\ WF_vars(\E s \in sends : \E ok \in BOOLEAN : DbCreatePost(s, ok))
    /\ WF_vars(\E s \in sends : SendResume(s))
    /\ WF_vars(\E i \in LoadSlots : \E ok \in BOOLEAN : DbGetRecentPosts(i, ok))
    /\ WF_vars(\E i \in LoadSlots : LoadResume(i))

----------------------------------------------------------------------------
(* The connection specification: clients connect and leave and send        *)
(* nothing, so every snapshot is the one of server.js:186.  The timer of   *)
(* a connection fires and the store answers every read.                    *)

NextConnect ==
    \/ \E c \in ConnIds : Connect(c)
    \/ \E c \in ConnIds : Disconnect(c)
    \/ \E c \in ConnIds : TimerFire(c)
    \/ \E i \in LoadSlots : \E ok \in BOOLEAN : DbGetRecentPosts(i, ok)
    \/ \E i \in LoadSlots : LoadResume(i)

SpecConnect ==
    /\ Init
    /\ [][NextConnect]_vars
    /\ \A c \in ConnIds : WF_vars(TimerFire(c))
    /\ WF_vars(\E i \in LoadSlots : \E ok \in BOOLEAN : DbGetRecentPosts(i, ok))
    /\ WF_vars(\E i \in LoadSlots : LoadResume(i))

----------------------------------------------------------------------------
(* The three-participant specification: client k only ever asks for the    *)
(* k-th of the channels "alpha", "Alpha " and "beta"; client 1 posts.      *)

AlphaConns == {1, 2, 3}

AlphaChannel(c) ==
    CASE c = 1 -> JsString(Str_alpha)
      [] c = 2 -> JsString(Str_Alpha_sp)
      [] c = 3 -> JsString(Str_beta)

NextAlpha ==
    \/ \E c \in AlphaConns : Connect(c)
    \/ \E c \in AlphaConns :
          UpdateSettings(c, [displayName |-> JsUndefined,
                             channel |-> AlphaChannel(c)])
    \/ \E m \in MessageInputs : SendMessage(1, m)
    \/ \E c \in AlphaConns : Disconnect(c)
    \/ \E c \in AlphaConns : TimerFire(c)
    \/ \E i \in LoadSlots : \E ok \in BOOLEAN : DbGetRecentPosts(i, ok)
    \/ \E i \in LoadSlots : LoadResume(i)
    \/ \E s \in sends : \E ok \in BOOLEAN : DbCreatePost(s, ok)
    \/ \E s \in sends : SendResume(s)

SpecAlpha == Init /\ [][NextAlpha]_vars

----------------------------------------------------------------------------
(* The matching specification: the matching rule applied to one pair of    *)
(* channel values.                                                         *)

MatchChannels ==
    {JsUndefined, JsNull, JsString(<<>>), JsString(<<" ">>),
     JsString(Str_general), JsString(Str_sp_general_sp),
     JsString(<<"\t">> \o Str_general), JsString(Str_alpha),
     JsString(Str_Alpha_sp), JsString(Str_beta)}

InitMatch ==
    /\ opened = {}
    /\ sockets = {}
    /\ activeUsers = <<>>
    /\ timers = {}
    /\ posts = <<>>
    /\ votes = {}
    /\ nextPostId = 1
    /\ now = 0
    /\ sends = {}
    /\ loads = <<>>
    /\ requests = <<>>
    /\ emitted = <<>>
    /\ last = NoSteps
    /\ deletions = <<>>
    /\ fnIn \in [user : MatchChannels, post : MatchChannels]
    /\ fnOut = <<>>
    /\ sessionStore = <<>>
    /\ nextToken = 1

\* The rule of the fan-out (server.js:226) and of the snapshot filter
\* (server.js:209) on the pair, each with the participant's channel as
\* given and as updateSettings would have stored it (server.js:110).
MatchApply ==
    /\ fnOut = <<>>
    /\ fnOut' =
         [fanout |-> FanoutMatches(fnIn.post, fnIn.user),
          snapshot |->
             FilterPosts(<<[channel |-> fnIn.post]>>,
                         [channel |-> fnIn.user]) # <<>>,
          fanoutStored |->
             FanoutMatches(fnIn.post, JsString(normalizeChannel(fnIn.user))),
          snapshotStored |->
             FilterPosts(<<[channel |-> fnIn.post]>>,
                         [channel |-> JsString(normalizeChannel(fnIn.user))])
                # <<>>]
    /\ UNCHANGED <<opened, sockets, activeUsers, timers, posts, votes,
                   nextPostId, now, sends, loads, requests, emitted, last,
                   deletions, fnIn, sessionStore, nextToken>>

NextMatch == MatchApply

SpecMatch == InitMatch /\ [][NextMatch]_vars

----------------------------------------------------------------------------
(* The geofence specification: a participant that has just connected to    *)
(* the geofenced revision sends one updateSettings, and the matching rule  *)
(* of that revision is applied to it and one stored post.  Coordinates are *)
(* 0, 0.5 and 1 degree.                                                    *)

GeoCoordinates == {JsNumber(0), JsNumber(1), JsNumber(2)}

GeoSettings ==
    [displayName : {JsUndefined},
     latitude : {JsUndefined} \cup GeoCoordinates,
     longitude : {JsUndefined} \cup GeoCoordinates,
     radius : {JsUndefined, JsNumber(10), JsNumber(100)},
     channel : {JsUndefined, JsString(Str_alpha)}]

GeoPosts ==
    [latitude : GeoCoordinates, longitude : GeoCoordinates,
     channel : {JsString(<<>>), JsString(Str_alpha)}]

InitGeo ==
    /\ opened = {}
    /\ sockets = {}
    /\ activeUsers = <<>>
    /\ timers = {}
    /\ posts = <<>>
    /\ votes = {}
    /\ nextPostId = 1
    /\ now = 0
    /\ sends = {}
    /\ loads = <<>>
    /\ requests = <<>>
    /\ emitted = <<>>
    /\ last = NoSteps
    /\ deletions = <<>>
    /\ fnIn \in [settings : GeoSettings, post : GeoPosts]
    /\ fnOut = <<>>
    /\ sessionStore = <<>>
    /\ nextToken = 1

GeoApply ==
    /\ fnOut = <<>>
    /\ LET user == MergeSettingsGeo(NewUserGeo(1), fnIn.settings)
       IN  fnOut' = [user |-> user,
                     fanout |-> GeoFanoutMatches(fnIn.post, user),
                     snapshot |-> GeoSnapshotMatches(fnIn.post, user)]
    /\ UNCHANGED <<opened, sockets, activeUsers, timers, posts, votes,
                   nextPostId, now, sends, loads, requests, emitted, last,
                   deletions, fnIn, sessionStore, nextToken>>

NextGeo == GeoApply

SpecGeo == InitGeo /\ [][NextGeo]_vars

----------------------------------------------------------------------------
(* The voting specifications.  Two clients are connected, the first in the *)
(* public channel and the second in "alpha", and the store holds one post  *)
(* of "alpha" from an earlier run; clients may leave.                      *)

VotePost == -1

VoteSession(k) == <<"session", 10 + k>>

InitVote ==
    /\ opened = {1, 2}
    /\ sockets = {1, 2}
    /\ activeUsers =
         [c \in {1, 2} |->
            [NewUser(c) EXCEPT
               !.channel = IF c = 2 THEN JsString(Str_alpha)
                           ELSE JsString(<<>>)]]
    /\ timers = {}
    /\ posts = <<PriorRow(VotePost, Str_alpha)>>
    /\ votes = {}
    /\ nextPostId = 1
    /\ now = 0
    /\ sends = {}
    /\ loads = <<>>
    /\ requests = <<>>
    /\ emitted = <<>>
    /\ last = NoSteps
    /\ deletions = <<>>
    /\ fnIn = <<>>
    /\ fnOut = <<>>
    /\ sessionStore = <<>>
    /\ nextToken = 1

\* Concurrent requests: three voters vote in any order and any number of
\* times, the first up or down and the others down; the administrator
\* deletes; every store call may fail.
Voters == {1, 2, 3}

VoteTypes(k) == IF k = 1 THEN {"up", "down"} ELSE {"down"}

NextVote ==
    \/ \E c \in {1, 2} : Disconnect(c)
    \/ \E k \in Voters : \E voteType \in VoteTypes(k) :
          VoteRequest(VoteSession(k), VotePost, voteType)
    \/ \E slot \in RequestSlots : \E ok \in BOOLEAN : VoteSelect(slot, ok)
    \/ \E slot \in RequestSlots : \E ok \in BOOLEAN : VoteWrite(slot, ok)
    \/ \E slot \in RequestSlots : \E ok \in BOOLEAN : VoteCounts(slot, ok)
    \/ \E slot \in RequestSlots : \E ok \in BOOLEAN : VoteCheck(slot, ok)
    \/ \E slot \in RequestSlots : \E ok \in BOOLEAN : \E cascade \in BOOLEAN :
          VoteDelete(slot, ok, cascade)
    \/ AdminDeleteRequest(VotePost)
    \/ \E slot \in RequestSlots : \E ok \in BOOLEAN : \E cascade \in BOOLEAN :
          AdminDelete(slot, ok, cascade)

SpecVote == InitVote /\ [][NextVote]_vars

\* Requests one after another: a voter without a vote on the post votes
\* down once no other request is in flight.  The store fails only where a
\* build that enforces foreign keys refuses a vote on a post that is gone.
DownVoters == {1, 2, 3, 4}

NextDownvotes ==
    \/ \E c \in {1, 2} : Disconnect(c)
    \/ \E k \in DownVoters :
          /\ DOMAIN requests = {}
          /\ SelectVote(VotePost, VoteSession(k)) = "none"
          /\ VoteRequest(VoteSession(k), VotePost, "down")
    \/ \E slot \in RequestSlots : VoteSelect(slot, TRUE)
    \/ \E slot \in RequestSlots : \E ok \in BOOLEAN :
          /\ ok \/ ~PostStored(VotePost)
          /\ VoteWrite(slot, ok)
    \/ \E slot \in RequestSlots : VoteCounts(slot, TRUE)
    \/ \E slot \in RequestSlots : VoteCheck(slot, TRUE)
    \/ \E slot \in RequestSlots : \E cascade \in BOOLEAN :
          VoteDelete(slot, TRUE, cascade)

SpecDownvotes == InitVote /\ [][NextDownvotes]_vars

\* Votes as the shipped page casts them: the two connected clients vote up
\* and down on the post; two voters never reach the threshold.
NextClientVote ==
    \/ \E c \in {1, 2} : Disconnect(c)
    \/ \E c \in sockets : \E voteType \in {"up", "down"} :
          handleVote(c, VotePost, voteType)
    \/ \E slot \in RequestSlots : \E ok \in BOOLEAN : VoteSelect(slot, ok)
    \/ \E slot \in RequestSlots : \E ok \in BOOLEAN : VoteWrite(slot, ok)
    \/ \E slot \in RequestSlots : \E ok \in BOOLEAN : VoteCounts(slot, ok)
    \/ \E slot \in RequestSlots : \E ok \in BOOLEAN : VoteCheck(slot, ok)

SpecClientVote == InitVote /\ [][NextClientVote]_vars

\* Requests one after another, each by any voter and of either type; every
\* store call may fail.
NextVoteFailures ==
    \/ \E c \in {1, 2} : Disconnect(c)
    \/ \E k \in Voters : \E voteType \in {"up", "down"} :
          /\ DOMAIN requests = {}
          /\ VoteRequest(VoteSession(k), VotePost, voteType)
    \/ \E slot \in RequestSlots : \E ok \in BOOLEAN : VoteSelect(slot, ok)
    \/ \E slot \in RequestSlots : \E ok \in BOOLEAN : VoteWrite(slot, ok)
    \/ \E slot \in RequestSlots : \E ok \in BOOLEAN : VoteCounts(slot, ok)
    \/ \E slot \in RequestSlots : \E ok \in BOOLEAN : VoteCheck(slot, ok)
    \/ \E slot \in RequestSlots : \E ok \in BOOLEAN : \E cascade \in BOOLEAN :
          VoteDelete(slot, ok, cascade)

SpecVoteFailures == InitVote /\ [][NextVoteFailures]_vars

\* Concurrent requests with a store that answers: three voters vote up or
\* down in any order and any number of times.  The store refuses only a
\* second row of the same voter (database.js:57) and, in a build that
\* enforces foreign keys, a vote on a post that is gone.
NextTally ==
    \/ \E k \in Voters : \E voteType \in {"up", "down"} :
          VoteRequest(VoteSession(k), VotePost, voteType)
    \/ \E slot \in RequestSlots : VoteSelect(slot, TRUE)
    \/ \E slot \in RequestSlots : \E ok \in BOOLEAN :
          /\ ok \/ ~PostStored(VotePost)
          /\ VoteWrite(slot, ok)
    \/ \E slot \in RequestSlots : VoteCounts(slot, TRUE)
    \/ \E slot \in RequestSlots : VoteCheck(slot, TRUE)
    \/ \E slot \in RequestSlots : \E cascade \in BOOLEAN :
          VoteDelete(slot, TRUE, cascade)

SpecTally == InitVote /\ [][NextTally]_vars

----------------------------------------------------------------------------
(* The admin sessions (middleware/adminAuth.js) and the routes that use    *)
(* them.  The clock counts hours.                                          *)

\* adminAuth.js:9: 24 * 60 * 60 * 1000 ms
SessionTimeout == 24

\* adminAuth.js:18-20: crypto.randomBytes(32) is modelled as a value never
\* drawn before.
generateSessionToken(n) == <<"token", n>>

AdminPassword == JsString(<<"s", "e", "c", "r", "e", "t">>)

\* adminAuth.js:23-25
verifyPassword(password) == password = AdminPassword

\* adminAuth.js:62-69
cleanupExpiredSessions(store) ==
    [token \in {k \in DOMAIN store : ~(now > store[k].expiresAt)} |->
        store[token]]

\* adminAuth.js:28-42
createSession(store, token) ==
    cleanupExpiredSessions(
        [k \in DOMAIN store \cup {token} |->
            IF k = token
            THEN [createdAt |-> now, expiresAt |-> now + SessionTimeout,
                  lastAccess |-> now]
            ELSE store[k]])

SessionDelete(store, token) == [k \in DOMAIN store \ {token} |-> store[k]]

\* A variant of verifySession in which an access renews the session.
verifySessionSliding(store, token) ==
    IF ~JsTruthy(token) THEN [valid |-> FALSE, store |-> store]
    ELSE IF token.s \notin DOMAIN store THEN [valid |-> FALSE, store |-> store]
    ELSE IF now > store[token.s].expiresAt
    THEN [valid |-> FALSE, store |-> SessionDelete(store, token.s)]
    ELSE [valid |-> TRUE,
          store |-> [store EXCEPT ![token.s].lastAccess = now,
                                  ![token.s].expiresAt = now + SessionTimeout]]

\* adminAuth.js:45-59: the answer and the session store it leaves.
verifySession(store, token) ==
    IF ~JsTruthy(token) THEN [valid |-> FALSE, store |-> store]
    ELSE IF token.s \notin DOMAIN store THEN [valid |-> FALSE, store |-> store]
    ELSE IF now > store[token.s].expiresAt
    THEN [valid |-> FALSE, store |-> SessionDelete(store, token.s)]
    ELSE [valid |-> TRUE, store |-> [store EXCEPT ![token.s].lastAccess = now]]

\* adminAuth.js:72-95: the token is the cookie's or else the header's;
\* verifySession runs once for the log line (line 82) and once for the
\* decision (line 84).
requireAuth(cookieToken, headerToken) ==
    LET token == Or(cookieToken, headerToken)
        logged == verifySession(sessionStore, token)
    IN  verifySession(logged.store, token)

\* server.js:286-301: POST /api/admin/login
AdminLogin(password) ==
    /\ IF ~JsTruthy(password)
       THEN /\ emitted' = <<Respond(400, [error |-> "Password required"])>>
            /\ UNCHANGED <<sessionStore, nextToken>>
       ELSE IF verifyPassword(password)
       THEN /\ nextToken <= MaxTokens
            /\ sessionStore' =
                  createSession(sessionStore, generateSessionToken(nextToken))
            /\ nextToken' = nextToken + 1
            /\ emitted' =
                  <<Respond(200, [success |-> TRUE,
                                  token |-> generateSessionToken(nextToken)])>>
       ELSE /\ emitted' = <<Respond(401, [error |-> "Invalid password"])>>
            /\ UNCHANGED <<sessionStore, nextToken>>
    /\ last' = Step("adminLogin", HttpClient, [password |-> password])
    /\ UNCHANGED <<opened, sockets, activeUsers, timers, posts, votes,
                   nextPostId, now, sends, loads, requests, deletions, fnIn,
                   fnOut>>

\* server.js:304-311: POST /api/admin/logout
AdminLogout(cookieToken, headerToken) ==
    /\ LET token == Or(cookieToken, headerToken)
       IN  sessionStore' =
             IF JsTruthy(token) /\ token.s \in DOMAIN sessionStore
             THEN SessionDelete(sessionStore, token.s)
             ELSE sessionStore
    /\ emitted' = <<Respond(200, [success |-> TRUE])>>
    /\ last' = Step("adminLogout", HttpClient,
                    [cookie |-> cookieToken, header |-> headerToken])
    /\ UNCHANGED <<opened, sockets, activeUsers, timers, posts, votes,
                   nextPostId, now, sends, loads, requests, deletions, fnIn,
                   fnOut, nextToken>>

\* server.js:314-316 and 354-357: DELETE /api/admin/messages/:messageId
\* through requireAdminAuth, up to deletePostById.
AdminDeleteMessage(cookieToken, headerToken, postId) ==
    /\ LET auth == requireAuth(cookieToken, headerToken)
       IN  /\ sessionStore' = auth.store
           /\ IF auth.valid
              THEN /\ FreeSlots # {}
                   /\ LET slot == CHOOSE s \in FreeSlots :
                                     \A o \in FreeSlots : s <= o
                      IN  requests' =
                            Suspend(slot,
                               [kind |-> "adminDelete", postId |-> postId,
                                sessionId |-> <<"session", 0>>,
                                voteType |-> "none", pc |-> "delete",
                                existing |-> "none", action |-> "none",
                                voteCounts |-> NoCounts, downvoteCount |-> 0])
                   /\ emitted' = <<>>
              ELSE /\ emitted' = <<Respond(401, [error |-> "Unauthorized"])>>
                   /\ UNCHANGED requests
    /\ last' = Step("adminDelete", HttpClient,
                    [cookie |-> cookieToken, header |-> headerToken])
    /\ UNCHANGED <<opened, sockets, activeUsers, timers, posts, votes,
                   nextPostId, now, sends, loads, deletions, fnIn, fnOut,
                   nextToken>>

\* Date.now() moves on to a later hour.
Elapse(hour) ==
    /\ hour > now
    /\ now' = hour
    /\ emitted' = <<>>
    /\ last' = NoSteps
    /\ UNCHANGED <<opened, sockets, activeUsers, timers, posts, votes,
                   nextPostId, sends, loads, requests, deletions, fnIn, fnOut,
                   sessionStore, nextToken>>

Hours == {0, 12, 24, 36}

PasswordInputs ==
    {JsUndefined, AdminPassword, JsString(<<"g", "u", "e", "s", "s">>)}

TokenInputs ==
    {JsUndefined} \cup {JsString(generateSessionToken(n)) : n \in 1..MaxTokens}

\* The administrator logs in and out and deletes post VotePost, with any
\* token in the cookie and in the header, while the hours pass.
NextAdmin ==
    \/ \E password \in PasswordInputs : AdminLogin(password)
    \/ \E cookieToken, headerToken \in TokenInputs :
          AdminLogout(cookieToken, headerToken)
    \/ \E cookieToken, headerToken \in TokenInputs :
          AdminDeleteMessage(cookieToken, headerToken, VotePost)
    \/ \E slot \in RequestSlots : \E ok \in BOOLEAN : \E cascade \in BOOLEAN :
          AdminDelete(slot, ok, cascade)
    \/ \E hour \in Hours : Elapse(hour)

SpecAdmin == InitVote /\ [][NextAdmin]_vars

\* Snapshots and deletions: the two clients move between the public
\* channel and "alpha", which starts a snapshot load each time, while the
\* administrator deletes the post.
DeletionSettings ==
    {[displayName |-> JsUndefined, channel |-> ch] :
        ch \in {JsString(<<>>), JsString(Str_alpha)}}

NextDeletion ==
    \/ \E c \in {1, 2} : \E s \in DeletionSettings : UpdateSettings(c, s)
    \/ \E c \in {1, 2} : Disconnect(c)
    \/ \E i \in LoadSlots : \E ok \in BOOLEAN : DbGetRecentPosts(i, ok)
    \/ \E i \in LoadSlots : LoadResume(i)
    \/ AdminDeleteRequest(VotePost)
    \/ \E slot \in RequestSlots : \E ok \in BOOLEAN : \E cascade \in BOOLEAN :
          AdminDelete(slot, ok, cascade)

SpecDeletion == InitVote /\ [][NextDeletion]_vars

\* Requests as any HTTP client may send them: each field present, blank or
\* missing, the vote type possibly none of the two.  A well-formed request
\* arrives when no other is in flight, a malformed one at any moment.  One
\* voter never reaches the threshold.
VoteInputs ==
    [postId : {JsUndefined, PostIdParam(VotePost)},
     voteType : {JsUndefined, JsString(<<>>), JsString(Str_up),
                 JsString(Str_down), JsString(Str_sideways)},
     sessionId : {JsUndefined, JsString(<<>>), JsString(VoteSession(1))}]

NextVoteInput ==
    \/ \E c \in {1, 2} : Disconnect(c)
    \/ \E in \in VoteInputs :
          /\ \/ DOMAIN requests = {}
             \/ VoteInputError(in.postId, in.voteType, in.sessionId) # "none"
          /\ PostVote(in.postId, in.voteType, in.sessionId)
    \/ \E slot \in RequestSlots : \E ok \in BOOLEAN : VoteSelect(slot, ok)
    \/ \E slot \in RequestSlots : \E ok \in BOOLEAN : VoteWrite(slot, ok)
    \/ \E slot \in RequestSlots : \E ok \in BOOLEAN : VoteCounts(slot, ok)
    \/ \E slot \in RequestSlots : \E ok \in BOOLEAN : VoteCheck(slot, ok)

SpecVoteInput == InitVote /\ [][NextVoteInput]_vars

----------------------------------------------------------------------------
(* Claims about the chat specification.                                    *)

NewPostsTo(events, c) ==
    SelectSeq(events, LAMBDA e : e.to = c /\ e.event = "newPost")

\* C1: when the store write of a sendMessage has succeeded, the fan-out
\* pushes exactly one newPost carrying the post to every participant that is
\* in the registry at that moment and whose normalized channel equals the
\* post's normalized channel, and none to any other socket.
C1_FanoutExactlyOnce ==
    [][\A s \in sends :
          (s.pc = "broadcast" /\ SendResume(s)) =>
             \A c \in ConnIds :
                LET got == NewPostsTo(emitted', c)
                    due == /\ c \in DOMAIN activeUsers
                           /\ normalizeChannel(activeUsers[c].channel)
                                = normalizeChannel(s.post.channel)
                IN  /\ Len(got) = IF due THEN 1 ELSE 0
                    /\ \A k \in 1..Len(got) : got[k].data = s.post]_vars

\* A fan-out reached one registered participant and passed over another.
C1_Witness ==
    \E c1 \in DOMAIN activeUsers : \E c2 \in DOMAIN activeUsers :
       /\ c1 # c2
       /\ Len(NewPostsTo(emitted, c1)) = 1
       /\ Len(NewPostsTo(emitted, c2)) = 0
       /\ \E r \in 1..Len(posts) : posts[r].id = NewPostsTo(emitted, c1)[1].data.id

\* C2: a Participant record exists for a socket id if and only if the
\* connection has been opened and its disconnect has not been processed.
C2_RegistryIffOpen == DOMAIN activeUsers = sockets

\* An update was handled for a socket after its disconnect, while another
\* socket is open.
C2_Witness ==
    /\ last.op = "updateSettings"
    /\ last.conn \in opened \ sockets
    /\ last.conn \notin DOMAIN activeUsers
    /\ \E c \in sockets : c \in DOMAIN activeUsers

\* The handler of updateSettings or sendMessage ran for connection c.
Handled(c) ==
    \/ \E s \in SettingsInputs : UpdateSettings(c, s)
    \/ \E m \in MessageInputs : SendMessage(c, m)

\* C14, as claimed: an updateSettings or sendMessage event handled for a
\* connection that is not in the registry emits nothing, changes no
\* registry entry, persists nothing and broadcasts nothing.
C14_StaleEventsSilent ==
    [][\A c \in ChatConns :
          (c \in opened /\ c \notin DOMAIN activeUsers /\ Handled(c)) =>
             /\ emitted' = <<>>
             /\ UNCHANGED <<activeUsers, posts, sends, loads, nextPostId>>]_vars

\* C14, amended: for a connection that is not in the registry both events
\* change no registry entry, persist nothing and broadcast nothing;
\* updateSettings emits nothing, sendMessage sends that connection one
\* error event, "Not connected".
C14_StaleSendMessageAnswered ==
    [][\A c \in ChatConns :
          (c \in opened /\ c \notin DOMAIN activeUsers) =>
             /\ (\E s \in SettingsInputs : UpdateSettings(c, s)) =>
                   /\ emitted' = <<>>
                   /\ UNCHANGED <<activeUsers, posts, sends, loads, nextPostId>>
             /\ (\E m \in MessageInputs : SendMessage(c, m)) =>
                   /\ emitted' =
                        <<Event(c, "error", [text |-> "Not connected"])>>
                   /\ UNCHANGED <<activeUsers, posts, sends, loads, nextPostId>>]_vars

\* A deregistered connection was answered "Not connected" while another
\* participant is registered.
C14_Witness ==
    \E c \in opened \ DOMAIN activeUsers :
       /\ emitted = <<Event(c, "error", [text |-> "Not connected"])>>
       /\ DOMAIN activeUsers # {}

\* C22: a step that reports a failed send or a failed snapshot load sends
\* one error event, to the connection concerned and to no other, and leaves
\* the registry (every participant and its settings) and the sockets as
\* they are.  The handlers keep no memory of it: in every state, so also
\* after an error, a sendMessage of a registered connection builds the post
\* from its participant and hands it to the store, and an updateSettings
\* of a registered connection merges the payload into its participant.
C22_ErrorsNonFatal ==
    [][/\ \A i \in 1..Len(emitted') :
             (/\ emitted'[i].event = "error"
              /\ emitted'[i].data.text \in {"Failed to send message",
                                            "Failed to load messages"})
                => /\ Len(emitted') = 1
                   /\ \/ \E s \in sends : s.conn = emitted'[i].to
                      \/ \E k \in 1..Len(loads) : loads[k].conn = emitted'[i].to
                   /\ UNCHANGED <<activeUsers, sockets, opened>>
       /\ nextPostId' # nextPostId =>
             \E c \in DOMAIN activeUsers : \E m \in MessageInputs :
                sends' = sends \cup {[conn |-> c, pc |-> "insert",
                                      post |-> NewPost(activeUsers[c], m)]}
       /\ (last'.op = "updateSettings" /\ last'.conn \in DOMAIN activeUsers) =>
             activeUsers' =
                [activeUsers EXCEPT
                   ![last'.conn] = MergeSettings(@, last'.arg)]]_vars

\* The only connection was told that its first message could not be sent;
\* its second message has been stored and is being delivered to it.
C22_Witness ==
    /\ opened = {1}
    /\ nextPostId = 3
    /\ Len(posts) = 1
    /\ posts[1].id = 2
    /\ Len(NewPostsTo(emitted, 1)) = 1
    /\ NewPostsTo(emitted, 1)[1].data.id = 2

\* C29: the fan-out of a stored post, whenever its write was started and
\* whoever wrote it, emits newPost to no connection whose disconnect has
\* been processed, the author included, and to every registered
\* participant of the post's channel, the author being connected or not.
C29_NoFanoutAfterDisconnect ==
    [][/\ \A k \in 1..Len(emitted') :
             emitted'[k].event = "newPost" =>
                /\ emitted'[k].to \in sockets
                /\ emitted'[k].to \in DOMAIN activeUsers
       /\ \A s \in sends \ sends' :
             s.pc = "broadcast" =>
                \A c \in ConnIds :
                   Len(NewPostsTo(emitted', c)) =
                      IF /\ c \in sockets
                         /\ normalizeChannel(activeUsers[c].channel)
                              = normalizeChannel(s.post.channel)
                      THEN 1 ELSE 0]_vars

\* The author left while its post was being written; the post was stored
\* and went to the other participant and not to the author.
C29_Witness ==
    \E a \in opened \ sockets : \E c \in sockets :
       /\ Len(NewPostsTo(emitted, c)) = 1
       /\ NewPostsTo(emitted, c)[1].data.sessionId = NewUser(a).sessionId
       /\ NewPostsTo(emitted, a) = <<>>
       /\ \E r \in 1..Len(posts) :
             posts[r].id = NewPostsTo(emitted, c)[1].data.id

\* C32: an event sent to a registered participant carries the display
\* name, channel and other data of a post only if the post is of the
\* participant's channel: that holds of a newPost event, of every post of
\* a posts snapshot, and of the notification of a new message.
C32_ChannelIsolation ==
    [][\A k \in 1..Len(emitted') :
          LET e == emitted'[k]
              mine(channel) ==
                 normalizeChannel(channel)
                    = normalizeChannel(activeUsers'[e.to].channel)
          IN  e.to \in DOMAIN activeUsers' =>
                 /\ e.event = "newPost" => mine(e.data.channel)
                 /\ e.event = "posts" =>
                       \A j \in 1..Len(e.data.list) :
                          mine(e.data.list[j].channel)
                 /\ (e.event = "adminNotification"
                       /\ e.data.event = "newMessage") =>
                       mine(e.data.data.channel)]_vars

\* C20: when the store rejects the INSERT of sendMessage nothing is
\* stored; the handler then sends the sender one error event and no
\* newPost to anybody, leaves the registry as it is and does not call the
\* store again.
C20_FailedSendOnlyReportsError ==
    [][\A s \in sends :
          /\ (s.pc = "insert" /\ DbCreatePost(s, FALSE)) =>
                /\ emitted' = <<>>
                /\ UNCHANGED <<posts, activeUsers>>
          /\ (s.pc = "error" /\ SendResume(s)) =>
                /\ emitted' =
                     <<Event(s.conn, "error",
                             [text |-> "Failed to send message"])>>
                /\ \A c \in ConnIds : NewPostsTo(emitted', c) = <<>>
                /\ sends' = sends \ {s}
                /\ UNCHANGED <<posts, activeUsers, loads, nextPostId>>]_vars

\* The sender was told of the failure; the store is empty although two
\* participants share the sender's channel.
C20_Witness ==
    /\ posts = <<>>
    /\ nextPostId = 2
    /\ DOMAIN activeUsers = {1, 2}
    /\ activeUsers[1].channel = activeUsers[2].channel
    /\ \E c \in DOMAIN activeUsers :
          emitted = <<Event(c, "error", [text |-> "Failed to send message"])>>

----------------------------------------------------------------------------
(* Claims about the snapshot specification.                                *)

\* got is a choice of the n most recent rows of the store (rows of equal
\* created_at may be chosen and ordered either way), oldest first.
IsMostRecent(got, n) ==
    /\ Len(got) = IF Len(posts) < n THEN Len(posts) ELSE n
    /\ \A j \in 1..Len(got) : \A k \in 1..Len(got) :
          /\ j # k => got[j].id # got[k].id
          /\ j < k => got[j].createdAt <= got[k].createdAt
    /\ \A j \in 1..Len(got) : \E r \in 1..Len(posts) :
          /\ posts[r].id = got[j].id
          /\ posts[r].channel = got[j].channel
          /\ posts[r].created_at = got[j].createdAt
    /\ \A r \in 1..Len(posts) :
          (\A j \in 1..Len(got) : got[j].id # posts[r].id) =>
             \A j \in 1..Len(got) : posts[r].created_at <= got[j].createdAt

\* list holds exactly the members of allPosts in the channel, in the order
\* of allPosts.
IsChannelFilterOf(list, allPosts, channel) ==
    \E f \in [1..Len(list) -> 1..Len(allPosts)] :
       /\ \A a \in 1..Len(list) : list[a] = allPosts[f[a]]
       /\ \A a \in 1..Len(list) : \A b \in 1..Len(list) : a < b => f[a] < f[b]
       /\ \A j \in 1..Len(allPosts) :
             (\E a \in 1..Len(list) : f[a] = j)
                <=> trim(allPosts[j].channel.s) = trim(channel.s)

\* C3: every posts snapshot is a single event whose list consists exactly of
\* those posts, among the RecentLimit most recent rows of the store at the
\* read, whose normalized channel equals the participant's normalized
\* channel, oldest first.
C3_SnapshotFiltered ==
    [][\A i \in LoadSlots :
          /\ DbGetRecentPosts(i, TRUE) =>
                IsMostRecent(loads'[i].allPosts, RecentLimit)
          /\ (i \in 1..Len(loads) /\ loads[i].pc = "emit" /\ LoadResume(i)) =>
                /\ Len(emitted') = 1
                /\ emitted'[1].to = loads[i].conn
                /\ emitted'[1].event = "posts"
                /\ IsChannelFilterOf(
                      emitted'[1].data.list, loads[i].allPosts,
                      IF loads[i].conn \in DOMAIN activeUsers
                      THEN activeUsers[loads[i].conn].channel
                      ELSE loads[i].user.channel)]_vars

\* A snapshot of two posts of one channel was sent while the store held
\* more rows than the limit and a post of another channel.
C3_Witness ==
    /\ Len(emitted) = 1
    /\ emitted[1].event = "posts"
    /\ Len(emitted[1].data.list) = 2
    /\ Len(posts) > RecentLimit
    /\ \E r \in 1..Len(posts) :
          posts[r].channel # emitted[1].data.list[1].channel

\* C10, as claimed: a channel of "", " " or undefined in updateSettings
\* leaves the participant in channel "".
C10_BlankAndUndefinedAlike ==
    (/\ last.op = "updateSettings"
     /\ last.conn \in DOMAIN activeUsers
     /\ last.arg.channel \in {JsString(<<>>), JsString(<<" ">>), JsUndefined})
       => activeUsers[last.conn].channel = JsString(<<>>)

\* C10, amended: a channel of "" or " " (or null) in updateSettings leaves
\* the participant in channel "", where it matches exactly the posts whose
\* channel is ""; an undefined channel leaves the stored channel as it was.
C10_BlankAlikeUndefinedKeeps ==
    [][\A s \in SnapshotSettings :
          (1 \in DOMAIN activeUsers /\ UpdateSettings(1, s)) =>
             /\ s.channel \in {JsString(<<>>), JsString(<<" ">>), JsNull} =>
                   /\ activeUsers'[1].channel = JsString(<<>>)
                   /\ \A r \in 1..Len(posts) :
                         FanoutMatches(posts[r].channel, activeUsers'[1].channel)
                            <=> posts[r].channel = JsString(<<>>)
             /\ s.channel = JsUndefined =>
                   activeUsers'[1].channel = activeUsers[1].channel]_vars

\* A blank channel moved a participant out of "alpha" (a snapshot load was
\* started) while the store holds a post of "alpha".
C10_Witness ==
    /\ last.op = "updateSettings"
    /\ last.arg.channel = JsString(<<" ">>)
    /\ last.conn \in DOMAIN activeUsers
    /\ activeUsers[last.conn].channel = JsString(<<>>)
    /\ loads # <<>>
    /\ \E r \in 1..Len(posts) : posts[r].channel = JsString(Str_alpha)

----------------------------------------------------------------------------
(* Claims about the matching specification.                                *)

\* The channel a value stands for: absent values stand for "", a string
\* for itself without its surrounding white space.
Canonical(v) == IF v.t = "string" THEN trim(v.s) ELSE <<>>

\* C9: the channel match of a participant and a post is the same in the
\* live fan-out and in the snapshot filter, it is the equality of the two
\* normalized channels, and it does not change when the participant's
\* channel is replaced by its normalized form (" general " and "general"
\* match the same posts).
C9_MatchInvariantUnderNormalization ==
    fnOut # <<>> =>
       /\ fnOut.fanout = fnOut.snapshot
       /\ fnOut.fanout = (Canonical(fnIn.user) = Canonical(fnIn.post))
       /\ fnOut.fanoutStored = fnOut.fanout
       /\ fnOut.snapshotStored = fnOut.snapshot
       /\ fnIn.user = JsString(Str_sp_general_sp) =>
             fnOut.fanout = FanoutMatches(fnIn.post, JsString(Str_general))

\* " general " was matched with a post of "general".
C9_Witness ==
    /\ fnOut # <<>>
    /\ fnIn.user = JsString(Str_sp_general_sp)
    /\ fnIn.post = JsString(Str_general)
    /\ fnOut.fanout
    /\ fnOut.snapshot

----------------------------------------------------------------------------
(* Claims about the three-participant specification.                       *)

\* C8: broadcasting a post of channel "alpha" to three participants whose
\* channels were set to "alpha", "Alpha " and "beta" delivers newPost to
\* exactly the first two.
C8_AlphaReachesFirstTwo ==
    [][\A s \in sends :
          (/\ s.pc = "broadcast"
           /\ SendResume(s)
           /\ s.post.channel = JsString(Str_alpha)
           /\ DOMAIN activeUsers = AlphaConns
           /\ \A c \in AlphaConns :
                 activeUsers[c].channel =
                    JsString(normalizeChannel(AlphaChannel(c))))
             => {c \in AlphaConns : Len(NewPostsTo(emitted', c)) = 1} = {1, 2}]_vars

----------------------------------------------------------------------------
(* Claims about the voting specifications.                                 *)

DownVotes == {v \in VotesOf(VotePost) : v.vote_type = "down"}

StoredAfter(postId) == \E r \in 1..Len(posts') : posts'[r].id = postId

DeletionsOf(postId) ==
    IF postId \in DOMAIN deletions THEN deletions[postId] ELSE 0

\* C4: with down votes cast one after another by distinct voters, the post
\* does not outlive the third vote; the step that deletes it broadcasts
\* messageDeleted with reason "auto-moderation" and downvoteCount 3 to
\* every open connection, and that is the only messageDeleted broadcast:
\* later down votes on the deleted post cause none.
C4_ThirdDownvoteDeletesOnce ==
    [][/\ (DOMAIN requests' = {} /\ PostStored(VotePost)') =>
             Cardinality(DownVotes') < DownvoteThreshold
       /\ (PostStored(VotePost) /\ ~PostStored(VotePost)') =>
             /\ DeletionsOf(VotePost)' = 1
             /\ \A c \in sockets :
                   LET got == EventsFor(emitted', c, "messageDeleted")
                   IN  /\ Len(got) = 1
                       /\ got[1].data =
                            [messageId |-> VotePost,
                             reason |-> "auto-moderation",
                             downvoteCount |-> 3]
       /\ ~PostStored(VotePost) =>
             /\ ~PostStored(VotePost)'
             /\ \A k \in 1..Len(emitted') :
                   emitted'[k].event # "messageDeleted"
       /\ DeletionsOf(VotePost)' <= 1]_vars

\* A fourth voter's down vote was processed after the deletion was
\* broadcast, and a voteUpdate went out for it.
C4_Witness ==
    /\ ~PostStored(VotePost)
    /\ DeletionsOf(VotePost) = 1
    /\ \E k \in 1..Len(emitted) :
          /\ emitted[k].event = "voteUpdate"
          /\ emitted[k].data.voteCounts.down = 4

\* C5: under every interleaving of vote and admin delete requests at most
\* one messageDeleted is broadcast per post: a deleted post stays deleted,
\* and a delete attempt on a post that is gone broadcasts nothing.
C5_AtMostOneDeletionBroadcast ==
    [][/\ \A p \in DOMAIN deletions' : deletions'[p] <= 1
       /\ ~PostStored(VotePost) => ~PostStored(VotePost)'
       /\ \A slot \in DOMAIN requests :
             (/\ requests[slot].pc = "delete"
              /\ slot \notin DOMAIN requests'
              /\ ~PostStored(requests[slot].postId))
                => /\ deletions' = deletions
                   /\ \A k \in 1..Len(emitted') :
                         emitted'[k].event # "messageDeleted"]_vars

\* After the one broadcast, an admin delete has just found no row while a
\* vote that breached the threshold is still about to delete.
C5_Witness ==
    /\ DeletionsOf(VotePost) = 1
    /\ ~PostStored(VotePost)
    /\ \E k \in 1..Len(emitted) :
          /\ emitted[k].event = "response"
          /\ emitted[k].data.status = 404
    /\ \E slot \in DOMAIN requests :
          /\ requests[slot].kind = "vote"
          /\ requests[slot].pc = "delete"

\* C6: a vote request that ends without an error and without deleting the
\* post pushes exactly one voteUpdate, with the post id and the counts the
\* request read, to every open connection whatever its channel, and none
\* to a closed one.
C6_VoteUpdateToAll ==
    [][\A slot \in DOMAIN requests :
          (/\ requests[slot].kind = "vote"
           /\ slot \notin DOMAIN requests'
           /\ deletions' = deletions
           /\ \A k \in 1..Len(emitted') :
                 emitted'[k].event = "response" =>
                    emitted'[k].data.status = 200)
             => \A c \in ConnIds :
                   LET got == EventsFor(emitted', c, "voteUpdate")
                       r == requests[slot]
                   IN  /\ Len(got) = IF c \in sockets THEN 1 ELSE 0
                       /\ \A k \in 1..Len(got) :
                             /\ got[k].data.postId = r.postId
                             /\ got[k].data.voteCounts =
                                  IF r.pc = "counts"
                                  THEN getPostVoteCounts(r.postId)
                                  ELSE r.voteCounts]_vars

\* A voteUpdate for the post of "alpha" reached the participant of the
\* public channel and the participant of "alpha".
C6_Witness ==
    /\ sockets = {1, 2}
    /\ activeUsers[1].channel # activeUsers[2].channel
    /\ \A c \in sockets : Len(EventsFor(emitted, c, "voteUpdate")) = 1

DownVotersOf(postId) ==
    {v.session_id : v \in {w \in VotesOf(postId) : w.vote_type = "down"}}

\* C27: a vote request goes on to delete the post only from its threshold
\* check, only if it is a down vote, and only if at that step at least 3
\* distinct voters hold a down vote on the post in the store; the count it
\* keeps is the one of the store at that step.  An up vote never reaches
\* the check.  A post leaves the store only by an admin delete or by such
\* a request, and only the latter broadcasts an automatic deletion.
C27_AutoDeleteOnlyAtThreshold ==
    [][/\ \A slot \in DOMAIN requests' :
             (/\ requests'[slot].kind = "vote"
              /\ requests'[slot].pc = "delete"
              /\ slot \in DOMAIN requests => requests[slot].pc # "delete")
                => /\ slot \in DOMAIN requests
                   /\ requests[slot].kind = "vote"
                   /\ requests[slot].pc = "check"
                   /\ requests[slot].voteType = "down"
                   /\ Cardinality(DownVotersOf(requests[slot].postId))
                         >= DownvoteThreshold
                   /\ requests'[slot].downvoteCount =
                         Cardinality(DownVotersOf(requests[slot].postId))
                   /\ votes' = votes
       /\ \A slot \in DOMAIN requests :
             (requests[slot].kind = "vote" /\ requests[slot].voteType = "up")
                => requests[slot].pc \notin {"check", "delete"}
       /\ (PostStored(VotePost) /\ ~StoredAfter(VotePost)) =>
             \E slot \in DOMAIN requests \ DOMAIN requests' :
                /\ requests[slot].pc = "delete"
                /\ \/ requests[slot].kind = "adminDelete"
                   \/ /\ requests[slot].voteType = "down"
                      /\ requests[slot].downvoteCount >= DownvoteThreshold
       /\ \A k \in 1..Len(emitted') :
             (/\ emitted'[k].event = "messageDeleted"
              /\ "reason" \in DOMAIN emitted'[k].data)
                => \E slot \in DOMAIN requests \ DOMAIN requests' :
                      /\ requests[slot].kind = "vote"
                      /\ requests[slot].voteType = "down"
                      /\ requests[slot].pc = "delete"
                      /\ emitted'[k].data.downvoteCount =
                            requests[slot].downvoteCount]_vars

\* The post was deleted on a count of 3 read at the check although, a
\* voter having withdrawn its down vote since, the store held 2 down votes
\* when the DELETE ran.
C27_Witness ==
    /\ ~PostStored(VotePost)
    /\ Cardinality(DownVotersOf(VotePost)) = 2
    /\ \E k \in 1..Len(emitted) :
          /\ emitted[k].event = "messageDeleted"
          /\ emitted[k].data =
                [messageId |-> VotePost, reason |-> "auto-moderation",
                 downvoteCount |-> 3]

\* C28: once the messageDeleted of a post has been broadcast no step sends
\* that post to a socket, neither as a newPost event nor inside a posts
\* snapshot.
C28_DeletedPostNeverSent ==
    [][\A p \in DOMAIN deletions :
          deletions[p] >= 1 =>
             \A k \in 1..Len(emitted') :
                /\ emitted'[k].event = "newPost" => emitted'[k].data.id # p
                /\ emitted'[k].event = "posts" =>
                      \A j \in 1..Len(emitted'[k].data.list) :
                         emitted'[k].data.list[j].id # p]_vars

----------------------------------------------------------------------------
(* Claims about the settings specification.                                *)

IsNormalized(channel) == channel.t = "string" /\ trim(channel.s) = channel.s

\* The rows sendMessage created (rows of an earlier run have ids below 1).
CreatedRows == {r \in 1..Len(posts) : posts[r].id >= 1}

\* C11: the channel of every registered participant and of every post
\* created by sendMessage is a string equal to its own trim, so plain
\* equality of stored channels agrees with the matching rule.
C11_StoredChannelsNormalized ==
    /\ \A c \in DOMAIN activeUsers : IsNormalized(activeUsers[c].channel)
    /\ \A s \in sends : IsNormalized(s.post.channel)
    /\ \A r \in CreatedRows : IsNormalized(posts[r].channel)
    /\ \A c \in DOMAIN activeUsers : \A r \in CreatedRows :
          (activeUsers[c].channel = posts[r].channel)
             <=> FanoutMatches(posts[r].channel, activeUsers[c].channel)

\* The client sent " alpha ", the registry holds "alpha", and a post of
\* "alpha" is in the store.
C11_Witness ==
    /\ last.op = "updateSettings"
    /\ last.arg.channel = JsString(Str_sp_alpha_sp)
    /\ last.conn \in DOMAIN activeUsers
    /\ activeUsers[last.conn].channel = JsString(Str_alpha)
    /\ \E r \in CreatedRows : posts[r].channel = JsString(Str_alpha)

\* C12: an updateSettings event starts a snapshot load for its connection
\* if and only if the stored channel after the update differs from the
\* stored channel before it, and a load whose read succeeds sends that
\* connection one posts event.
C12_SnapshotIffChannelChanged ==
    [][/\ (last'.op = "updateSettings" /\ last'.conn \in DOMAIN activeUsers) =>
             LET c == last'.conn
             IN  IF activeUsers'[c].channel # activeUsers[c].channel
                 THEN /\ Len(loads') = Len(loads) + 1
                      /\ loads'[Len(loads')].conn = c
                      /\ loads'[Len(loads')].pc = "read"
                 ELSE Len(loads') = Len(loads)
       /\ \A i \in LoadSlots :
             (i \in 1..Len(loads) /\ loads[i].pc = "emit" /\ LoadResume(i)) =>
                /\ Len(emitted') = 1
                /\ emitted'[1].to = loads[i].conn
                /\ emitted'[1].event = "posts"]_vars

\* An update changed the displayName and sent a channel that normalizes to
\* the current one: no load was started.
C12_Witness ==
    /\ last.op = "updateSettings"
    /\ last.arg.displayName = JsString(Str_Bob)
    /\ last.arg.channel = JsString(Str_sp_alpha_sp)
    /\ last.conn \in DOMAIN activeUsers
    /\ activeUsers[last.conn].channel = JsString(Str_alpha)
    /\ activeUsers[last.conn].displayName = JsString(Str_Bob)
    /\ loads = <<>>
    /\ timers = {}

\* C26: the post a sendMessage builds carries the sessionId, displayName
\* and channel its author has in the registry at that moment; while the
\* handler is suspended at the store no step changes the post it holds;
\* the row the INSERT writes and every newPost event carry the values of
\* the held post; and a stored row never changes.  So an updateSettings
\* handled after the sendMessage alters neither.
C26_PostKeepsAuthorSnapshot ==
    [][/\ \A s \in sends' \ sends :
             s.pc = "insert" =>
                /\ s.conn \in DOMAIN activeUsers
                /\ s.post.sessionId = activeUsers[s.conn].sessionId
                /\ s.post.displayName = activeUsers[s.conn].displayName
                /\ s.post.channel = activeUsers[s.conn].channel
       /\ \A s \in sends : \A s2 \in sends' :
             s2.post.id = s.post.id => s2.post = s.post
       /\ Len(posts') >= Len(posts)
       /\ \A r \in 1..Len(posts) : posts'[r] = posts[r]
       /\ \A r \in (Len(posts) + 1)..Len(posts') :
             \E s \in sends :
                /\ s.pc = "insert"
                /\ posts'[r].id = s.post.id
                /\ posts'[r].session_id = s.post.sessionId
                /\ posts'[r].display_name = s.post.displayName
                /\ posts'[r].channel = s.post.channel
       /\ \A i \in 1..Len(emitted') :
             emitted'[i].event = "newPost" =>
                \E s \in sends :
                   s.pc = "broadcast" /\ emitted'[i].data = s.post]_vars

\* The author became "Bob" while its post was at the store: the post is
\* stored and delivered to it as written by "Anonymous".
C26_Witness ==
    /\ 1 \in DOMAIN activeUsers
    /\ activeUsers[1].displayName = JsString(Str_Bob)
    /\ Len(NewPostsTo(emitted, 1)) = 1
    /\ NewPostsTo(emitted, 1)[1].data.displayName = JsString(Str_Anonymous)
    /\ NewPostsTo(emitted, 1)[1].data.sessionId = activeUsers[1].sessionId
    /\ \E r \in 1..Len(posts) :
          /\ posts[r].id = NewPostsTo(emitted, 1)[1].data.id
          /\ posts[r].display_name = JsString(Str_Anonymous)

\* C16: the displayName of every registered participant is non-empty after
\* trimming.
C16_DisplayNameNeverBlank ==
    \A c \in DOMAIN activeUsers :
       /\ activeUsers[c].displayName.t = "string"
       /\ trim(activeUsers[c].displayName.s) # <<>>

----------------------------------------------------------------------------
(* Claims about the ordering specification.                                *)

\* The fan-out of the stored post has run: its handler is no longer
\* suspended.
FannedOut(row) == \A s \in sends : s.post.id # row.id

\* C30: no participant is sent the newPost of a message after the newPost
\* of a later message of the same sender.  Both participants are
\* registered in the sender's channel from the start, so one that is sent
\* a newPost now was sent that of every post whose fan-out has run.
C30_SendOrderKept ==
    [][\A k \in 1..Len(emitted') :
          emitted'[k].event = "newPost" =>
             \A r \in 1..Len(posts) :
                (/\ posts[r].session_id = emitted'[k].data.sessionId
                 /\ FannedOut(posts[r]))
                   => posts[r].id < emitted'[k].data.id]_vars

InFlight(id) == \E s \in sends : s.post.id = id

\* C31: a newPost event is emitted only by the handler of a post whose
\* INSERT has succeeded, carries that post, and goes at most once to a
\* connection; the handler then ends, and as post ids are never handed out
\* twice no later step emits the post again.  A handler whose INSERT was
\* rejected ends by sending its sender one error event and no newPost, the
\* post not being stored.  Every sendMessage taken from a registered
\* participant ends in one of the two.
C31_PersistThenBroadcast ==
    /\ \A id \in 1..MaxPosts : InFlight(id) ~> ~InFlight(id)
    /\ [][/\ \A k \in 1..Len(emitted') :
                emitted'[k].event = "newPost" =>
                   /\ \E s \in sends \ sends' :
                         /\ s.pc = "broadcast"
                         /\ emitted'[k].data = s.post
                         /\ ~\E s2 \in sends' : s2.post.id = s.post.id
                   /\ \E r \in 1..Len(posts) :
                         posts[r].id = emitted'[k].data.id
                   /\ Len(NewPostsTo(emitted', emitted'[k].to)) = 1
          /\ \A s \in sends' \ sends :
                s.pc = "insert" =>
                   /\ s.post.id = nextPostId
                   /\ nextPostId' = nextPostId + 1
                   /\ \A s2 \in sends : s2.post.id < nextPostId
                   /\ \A r \in 1..Len(posts) : posts[r].id < nextPostId
          /\ \A s \in sends \ sends' :
                /\ s.pc = "insert" =>
                      \E s2 \in sends' :
                         /\ s2.post = s.post
                         /\ \/ /\ s2.pc = "broadcast"
                               /\ posts' = Append(posts, PostRow(s.post, now))
                            \/ /\ s2.pc = "error"
                               /\ posts' = posts
                /\ s.pc = "error" =>
                      /\ emitted' = <<Event(s.conn, "error",
                                            [text |-> "Failed to send message"])>>
                      /\ ~\E r \in 1..Len(posts') : posts'[r].id = s.post.id
                /\ s.pc = "broadcast" =>
                      \A k \in 1..Len(emitted') :
                         emitted'[k].event # "error"]_vars

\* Of two messages the first was rejected by the store and the second
\* stored and fanned out; the sender has just been told of the failure.
C31_Witness ==
    /\ nextPostId = 3
    /\ sends = {}
    /\ Len(posts) = 1
    /\ posts[1].id = 2
    /\ emitted = <<Event(1, "error", [text |-> "Failed to send message"])>>

----------------------------------------------------------------------------
(* Claims about the payload specification.                                 *)

\* C25: an updateSettings of a registered connection leaves the
\* displayName as it is when the payload has none and the channel as it is
\* when the payload has none; whatever else the payload carries, the
\* record keeps its fields and its sessionId, id and connectedAt, and the
\* result is the one of the payload cut down to displayName and channel;
\* no other participant's record changes.  In every step a participant
\* that stays registered keeps its sessionId, id and connectedAt.
C25_MergeTouchesOnlyItsFields ==
    [][/\ (last'.op = "updateSettings" /\ last'.conn \in DOMAIN activeUsers) =>
             LET c == last'.conn
                 settings == last'.arg
                 old == activeUsers[c]
                 new == activeUsers'[c]
             IN  /\ DOMAIN activeUsers' = DOMAIN activeUsers
                 /\ settings.displayName = JsUndefined =>
                       new.displayName = old.displayName
                 /\ settings.channel = JsUndefined => new.channel = old.channel
                 /\ DOMAIN new = DOMAIN old
                 /\ new = [old EXCEPT !.displayName = new.displayName,
                                      !.channel = new.channel]
                 /\ new = MergeSettings(old,
                              [settings EXCEPT !.sessionId = JsUndefined,
                                               !.id = JsUndefined,
                                               !.connectedAt = JsUndefined,
                                               !.latitude = JsUndefined])
                 /\ \A k \in DOMAIN activeUsers \ {c} :
                       activeUsers'[k] = activeUsers[k]
       /\ \A c \in DOMAIN activeUsers \cap DOMAIN activeUsers' :
             /\ activeUsers'[c].sessionId = activeUsers[c].sessionId
             /\ activeUsers'[c].id = activeUsers[c].id
             /\ activeUsers'[c].connectedAt = activeUsers[c].connectedAt]_vars

\* A payload with a displayName, no channel and a sessionId of its own was
\* merged into a participant that had moved to "alpha", while another
\* participant is registered.
C25_Witness ==
    /\ last.op = "updateSettings"
    /\ last.conn \in DOMAIN activeUsers
    /\ last.arg.displayName = JsString(Str_Bob)
    /\ last.arg.channel = JsUndefined
    /\ last.arg.sessionId # JsUndefined
    /\ activeUsers[last.conn].displayName = JsString(Str_Bob)
    /\ activeUsers[last.conn].channel = JsString(Str_alpha)
    /\ DOMAIN activeUsers # {last.conn}

----------------------------------------------------------------------------
(* Claims about the connection specification.                              *)

LoadPending(c) == \E i \in 1..Len(loads) : loads[i].conn = c

SnapshotSent(c) ==
    /\ Len(emitted) = 1
    /\ emitted[1].to = c
    /\ emitted[1].event \in {"posts", "error"}

\* C13: the timer of a connection fires once; if the connection is then
\* registered one store read is started for it, and that read is followed
\* by exactly one event for the connection, posts if the read succeeded
\* and error if it failed; if the connection was deregistered before, no
\* read is started and nothing is sent.
C13_OneSnapshotAfterConnect ==
    /\ \A c \in ConnIds : (c \in timers) ~> (c \notin timers)
    /\ \A c \in ConnIds : LoadPending(c) ~> SnapshotSent(c)
    /\ [][/\ \A c \in ConnIds :
                /\ (c \in opened /\ c \notin timers) => c \notin timers'
                /\ (c \in timers /\ c \notin timers') =>
                      /\ emitted' = <<>>
                      /\ IF c \in DOMAIN activeUsers
                         THEN /\ Len(loads') = Len(loads) + 1
                              /\ loads'[Len(loads')].conn = c
                              /\ loads'[Len(loads')].pc = "read"
                         ELSE loads' = loads
          /\ Len(loads') > Len(loads) => timers' # timers
          /\ \A i \in LoadSlots :
                (i \in 1..Len(loads) /\ LoadResume(i)) =>
                   /\ Len(emitted') = 1
                   /\ emitted'[1].to = loads[i].conn
                   /\ emitted'[1].event =
                        IF loads[i].pc = "emit" THEN "posts" ELSE "error"
                   /\ ~(\E k \in 1..Len(loads') : loads'[k].conn = loads[i].conn)
          /\ emitted' # <<>> => Len(loads') < Len(loads)]_vars

\* The second connection has just been sent its snapshot; the first was
\* deregistered while its timer is still pending.
C13_Witness ==
    /\ 1 \in opened \ sockets
    /\ 1 \in timers
    /\ SnapshotSent(2)
    /\ emitted[1].event = "posts"

\* C15: a disconnect removes the participant of its connection and no
\* other, and sends nothing; removing it again, or removing a connection
\* that is not registered, changes nothing; a connection only adds its own
\* participant, so removing it right away gives the registry back as it
\* was; and no later step, the timer's included, puts a participant back.
C15_DeregisterIdempotent ==
    [][/\ \A c \in ConnIds :
             /\ deregister(deregister(activeUsers', c), c) =
                   deregister(activeUsers', c)
             /\ c \notin DOMAIN activeUsers' =>
                   deregister(activeUsers', c) = activeUsers'
             /\ (c \in sockets /\ c \notin sockets') =>
                   /\ activeUsers' = deregister(activeUsers, c)
                   /\ c \notin DOMAIN activeUsers'
                   /\ \A k \in DOMAIN activeUsers \ {c} :
                         /\ k \in DOMAIN activeUsers'
                         /\ activeUsers'[k] = activeUsers[k]
                   /\ emitted' = <<>>
             /\ (c \notin opened /\ c \in opened') =>
                   deregister(activeUsers', c) = activeUsers
             /\ (c \in opened /\ c \notin DOMAIN activeUsers) =>
                   c \notin DOMAIN activeUsers'
             /\ (c \in timers /\ c \notin timers') =>
                   activeUsers' = activeUsers]_vars

\* The only connection was deregistered before its timer fired; the timer
\* has fired since and the registry is empty.
C15_Witness ==
    /\ opened = {1}
    /\ sockets = {}
    /\ timers = {}
    /\ loads = <<>>
    /\ DOMAIN activeUsers = {}

----------------------------------------------------------------------------
(* Claims about the voter identity and the vote table. *)

\* C17: every vote in the store is recorded under the server-generated
\* sessionId of a connection, the identity stamped on the posts that
\* connection authors.
C17_VotesUnderSessionId ==
    \A v \in votes : \E c \in opened : v.session_id = NewUser(c).sessionId

\* C18: the store never holds two votes of one voter on one post.
C18_OneVotePerVoter ==
    \A v \in votes : \A w \in votes :
       (v.post_id = w.post_id /\ v.session_id = w.session_id) => v = w

\* A voter's vote is in the store while another request of the same voter,
\* whose SELECT found no vote, is about to INSERT one of the other type.
C18_Witness ==
    \E slot \in DOMAIN requests : \E v \in votes :
       /\ requests[slot].kind = "vote"
       /\ requests[slot].pc = "write"
       /\ requests[slot].existing = "none"
       /\ v.post_id = requests[slot].postId
       /\ v.session_id = requests[slot].sessionId
       /\ v.vote_type # requests[slot].voteType

CountsAfter(postId) ==
    [up |-> Cardinality({v \in votes' : v.post_id = postId /\ v.vote_type = "up"}),
     down |-> Cardinality({v \in votes' :
                             v.post_id = postId /\ v.vote_type = "down"})]

Opposite(voteType) == IF voteType = "up" THEN "down" ELSE "up"

\* C19: a write of addVote whose SELECT result still describes the store
\* follows the toggle table.  No vote: the vote is recorded, action added,
\* its count goes up by one.  Same type: the vote is removed, action
\* removed, its count goes down by one (so a vote cast twice restores the
\* counts).  Other type: action updated, one count moves from the old type
\* to the new one.
C19_ToggleTable ==
    [][\A slot \in DOMAIN requests :
          LET r == requests[slot]
              t == r.voteType
              o == Opposite(r.voteType)
              before == getPostVoteCounts(r.postId)
              after == CountsAfter(r.postId)
          IN  (/\ r.kind = "vote"
               /\ r.pc = "write"
               /\ r.existing = SelectVote(r.postId, r.sessionId)
               /\ slot \in DOMAIN requests'
               /\ requests'[slot].pc = "counts")
                 => CASE r.existing = "none" ->
                           /\ requests'[slot].action = "added"
                           /\ after[t] = before[t] + 1
                           /\ after[o] = before[o]
                      [] r.existing = t ->
                           /\ requests'[slot].action = "removed"
                           /\ after[t] = before[t] - 1
                           /\ after[o] = before[o]
                      [] OTHER ->
                           /\ requests'[slot].action = "updated"
                           /\ after[t] = before[t] + 1
                           /\ after[o] = before[o] - 1]_vars

\* An up vote cast a second time was removed and the post has no up vote
\* again.
C19_Witness ==
    \E slot \in DOMAIN requests :
       /\ requests[slot].kind = "vote"
       /\ requests[slot].voteType = "up"
       /\ requests[slot].existing = "up"
       /\ requests[slot].action = "removed"
       /\ getPostVoteCounts(requests[slot].postId).up = 0

----------------------------------------------------------------------------
(* Claims about failing and malformed vote requests.                       *)

\* The vote of a voter on a post in the next state, "none" if there is none.
VoteAfter(postId, sessionId) ==
    LET mine == {v \in votes' : v.post_id = postId /\ v.session_id = sessionId}
    IN  IF mine = {} THEN "none" ELSE (CHOOSE v \in mine : TRUE).vote_type

\* C21: when a store call of a vote request fails, requests being handled
\* one after another, the request ends with the vote store and the post
\* store as they were when it arrived (the voter's vote is the one its
\* SELECT found, every other row is untouched) and with no voteUpdate or
\* messageDeleted event.
C21_FailedVoteChangesNothing ==
    [][\A slot \in DOMAIN requests :
          LET r == requests[slot]
          IN  (/\ r.kind = "vote"
               /\ slot \notin DOMAIN requests'
               /\ \E i \in 1..Len(emitted') :
                     /\ emitted'[i].event = "response"
                     /\ emitted'[i].data.status = 500)
                 => /\ posts' = posts
                    /\ r.pc # "select" =>
                          VoteAfter(r.postId, r.sessionId) = r.existing
                    /\ \A v \in votes' :
                          v.session_id # r.sessionId => v \in votes
                    /\ \A v \in votes :
                          v.session_id # r.sessionId => v \in votes'
                    /\ \A i \in 1..Len(emitted') :
                          emitted'[i].event \notin {"voteUpdate", "messageDeleted"}]_vars

\* A field the client left out of the request.
Missing(v) == v.t = "undefined"

\* C23: a vote request without postId, voteType or sessionId, or whose
\* voteType is neither "up" nor "down", is answered 400 and nothing else
\* happens: no request is suspended at a store call, the vote store and
\* the post store keep their rows, and no event is sent to any socket.
C23_MalformedVoteRejected ==
    [][\A in \in VoteInputs :
          (/\ \/ Missing(in.postId)
              \/ Missing(in.voteType)
              \/ Missing(in.sessionId)
              \/ in.voteType.s \notin {Str_up, Str_down}
           /\ PostVote(in.postId, in.voteType, in.sessionId))
             => /\ Len(emitted') = 1
                /\ emitted'[1].to = HttpClient
                /\ emitted'[1].data.status = 400
                /\ UNCHANGED <<requests, votes, posts, deletions>>]_vars

\* A request naming an unknown vote type was turned down while a vote is in
\* the store and another request is in flight.
C23_Witness ==
    /\ emitted = <<Respond(400, [error |->
                       "Invalid vote type. Must be \"up\" or \"down\""])>>
    /\ votes # {}
    /\ DOMAIN requests # {}

----------------------------------------------------------------------------
(* Claims about the geofence specification.                                *)

GeoAt(v, latitude, longitude) ==
    v.latitude = JsNumber(latitude) /\ v.longitude = JsNumber(longitude)

\* C24: a participant that gave (0, 0) and a radius of 10 miles is not sent
\* a post at (1, 0); one that gave (0, 0) and a radius of 100 miles is sent
\* a post of its channel at (0, 0.5); one that gave no latitude or no
\* longitude is sent no post.
C24_GeofenceExamples ==
    fnOut # <<>> =>
       LET settings == fnIn.settings
           sameChannel == fnOut.user.channel = fnIn.post.channel
       IN  /\ (GeoAt(settings, 0, 0) /\ settings.radius = JsNumber(10)
                 /\ GeoAt(fnIn.post, 2, 0)) => ~fnOut.fanout
           /\ (GeoAt(settings, 0, 0) /\ settings.radius = JsNumber(100)
                 /\ GeoAt(fnIn.post, 0, 1) /\ sameChannel) => fnOut.fanout
           /\ (settings.latitude = JsUndefined \/ settings.longitude = JsUndefined)
                 => ~fnOut.fanout

\* The two distances the examples rest on, 69.1 and 34.5 miles, and a
\* participant away from (0, 0) that is sent a post of its channel 34.5
\* miles away.
GeoDistancesAsExpected ==
    /\ calculateDistance(0, 0, 2, 0) \in 69000000..69200000
    /\ calculateDistance(0, 0, 0, 1) \in 34400000..34600000
    /\ (/\ fnOut # <<>>
        /\ GeoAt(fnIn.settings, 1, 1)
        /\ fnIn.settings.radius = JsNumber(100)
        /\ GeoAt(fnIn.post, 1, 2)
        /\ fnOut.user.channel = fnIn.post.channel) => fnOut.fanout

----------------------------------------------------------------------------
(* Claims about what a client has been shown, checked on the delivery log. *)

SentNewPost(c, id) ==
    \E k \in 1..Len(fnOut) :
       fnOut[k].to = c /\ fnOut[k].event = "newPost" /\ fnOut[k].ids = <<id>>

Stored(id) == \E j \in 1..Len(posts) : posts[j].id = id

RowOf(id) == posts[CHOOSE j \in 1..Len(posts) : posts[j].id = id]

\* C33: a `posts` snapshot sent to a participant contains every post that
\* the participant was sent as `newPost` before, that is still stored, that
\* is among the RecentLimit most recent posts and whose channel is the
\* participant's channel.
C33_SnapshotKeepsLivePosts ==
    [][\A i \in 1..Len(loads) :
          (/\ loads[i].pc = "emit"
           /\ Len(loads') < Len(loads)
           /\ loads[i].conn \in DOMAIN activeUsers)
          => \A k \in 1..Len(emitted') :
                emitted'[k].event = "posts" =>
                   \A id \in 1..MaxPosts :
                      (/\ SentNewPost(emitted'[k].to, id)
                       /\ Stored(id)
                       /\ \E j \in 1..Len(getRecentPosts(RecentLimit)) :
                              getRecentPosts(RecentLimit)[j].id = id
                       /\ SnapshotMatches(RowOf(id).channel,
                                          activeUsers[emitted'[k].to].channel))
                      => \E j \in 1..Len(emitted'[k].data.list) :
                            emitted'[k].data.list[j].id = id]_vars

----------------------------------------------------------------------------
(* Claims about concurrent vote requests on a store that answers.          *)

\* C34: when the vote request that completes last broadcasts `voteUpdate`
\* for a post that is still stored, the broadcast carries the vote counts
\* the store then holds for the post.
C34_TalliesConverge ==
    [][(DOMAIN requests' = {} /\ StoredAfter(VotePost))
          => \A k \in 1..Len(emitted') :
                (emitted'[k].event = "voteUpdate"
                    /\ emitted'[k].data.postId = VotePost)
                => emitted'[k].data.voteCounts = CountsAfter(VotePost)]_vars

\* C36: whenever no vote request is in flight, a post that is in the store
\* has fewer than DownvoteThreshold distinct voters holding a down vote on
\* it, however the requests that added, removed and flipped votes ran
\* against each other.
C36_NoStoredPostAtThreshold ==
    DOMAIN requests = {} =>
       \A r \in 1..Len(posts) :
          Cardinality(DownVotersOf(posts[r].id)) < DownvoteThreshold

\* A third down vote was added and counted, and another was taken back
\* before the threshold check: the post is still stored with two down votes.
C36_Witness ==
    /\ DOMAIN requests = {}
    /\ PostStored(VotePost)
    /\ Cardinality(DownVotersOf(VotePost)) = DownvoteThreshold - 1
    /\ \E k \in 1..Len(emitted) :
          /\ emitted[k].event = "voteUpdate"
          /\ emitted[k].data.action = "added"
          /\ emitted[k].data.voteType = "down"
          /\ emitted[k].data.voteCounts.down = DownvoteThreshold

----------------------------------------------------------------------------
(* Claims about the deliveries of a channel, checked on the delivery log.  *)
(* Under SpecLog the store never holds more than RecentLimit posts, so the *)
(* LIMIT of a snapshot's read cuts nothing.                                *)

Shown(c, id) ==
    \E k \in 1..Len(fnOut) :
       /\ fnOut[k].to = c
       /\ \E j \in 1..Len(fnOut[k].ids) : fnOut[k].ids[j] = id

SentSnapshot(c) ==
    \E k \in 1..Len(fnOut) : fnOut[k].to = c /\ fnOut[k].event = "posts"

\* C35: once connection 1 has switched to channel alpha, has been sent the
\* snapshot of the switch and is still registered, and no message and no
\* snapshot is in flight, every stored post of alpha has been delivered to
\* it, in the snapshot or as `newPost`.
C35_NoGap ==
    (/\ sends = {}
     /\ loads = <<>>
     /\ 1 \in DOMAIN activeUsers
     /\ activeUsers[1].channel = JsString(Str_alpha)
     /\ SentSnapshot(1))
    => \A r \in 1..Len(posts) :
          posts[r].channel = JsString(Str_alpha) => Shown(1, posts[r].id)

\* Post 1 was stored before the switch and came in the snapshot; post 2 was
\* stored after the snapshot's read and came as `newPost`.
C35_Witness ==
    /\ sends = {}
    /\ loads = <<>>
    /\ 1 \in DOMAIN activeUsers
    /\ Len(posts) = 2
    /\ \E k \in 1..Len(fnOut) :
          fnOut[k] = [to |-> 1, event |-> "posts", ids |-> <<1>>]
    /\ SentNewPost(1, 2)
    /\ ~SentNewPost(1, 1)

NewPostAt(c, id) ==
    CHOOSE k \in 1..Len(fnOut) :
       fnOut[k].to = c /\ fnOut[k].event = "newPost" /\ fnOut[k].ids = <<id>>

\* C37: two connections that have both been sent `newPost` for two posts
\* have been sent them in the same relative order.
C37_SameOrder ==
    \A c1, c2 \in {1, 2} : \A p, q \in 1..MaxPosts :
       (/\ SentNewPost(c1, p) /\ SentNewPost(c1, q)
        /\ SentNewPost(c2, p) /\ SentNewPost(c2, q))
       => (NewPostAt(c1, p) < NewPostAt(c1, q)
              <=> NewPostAt(c2, p) < NewPostAt(c2, q))

\* Both connections were sent post 2 before post 1: the fan-outs ran in
\* the order in which the store answered, not in the order of the ids.
C37_Witness ==
    /\ \A c \in {1, 2} : SentNewPost(c, 1) /\ SentNewPost(c, 2)
    /\ \A c \in {1, 2} : NewPostAt(c, 2) < NewPostAt(c, 1)

----------------------------------------------------------------------------
(* Claims about the chat view of the page.                                 *)

\* C38: after the page of connection 1, which is connected, has opened the
\* chat view of channel alpha, the Participant of connection 1 eventually
\* has channel alpha.
C38_ChatViewSwitchesChannel ==
    (last = Step("showChatView", 1, [channel |-> JsString(Str_alpha)]))
       ~> (activeUsers[1].channel = JsString(Str_alpha))

----------------------------------------------------------------------------
(* Claims about the admin sessions.                                        *)

PresentedToken == Or(last'.arg.cookie, last'.arg.header)

Issued(token) == \E n \in 1..MaxTokens : n < nextToken /\ token = <<"token", n>>

\* C39: an admin deletion is started only by a request whose token is in
\* the session store, was issued by a login and is not past its expiry,
\* and a post is deleted only by such a request; a session expires
\* SessionTimeout after its creation whatever accesses it had; a request
\* with an expired token is answered 401 and the token leaves the session
\* store; a logout removes the token; and a token that has left the session
\* store never returns, because only a successful login adds a token and
\* it adds one never drawn before.
C39_AdminSessions ==
    [][/\ DOMAIN requests' \ DOMAIN requests # {}
          => /\ last'.op = "adminDelete"
             /\ JsTruthy(PresentedToken)
             /\ PresentedToken.s \in DOMAIN sessionStore
             /\ Issued(PresentedToken.s)
             /\ ~(now > sessionStore[PresentedToken.s].expiresAt)
       /\ Len(posts') < Len(posts)
          => \E slot \in DOMAIN requests \ DOMAIN requests' :
                requests[slot].kind = "adminDelete"
       /\ (/\ last'.op = "adminDelete"
           /\ JsTruthy(PresentedToken)
           /\ PresentedToken.s \in DOMAIN sessionStore
           /\ now > sessionStore[PresentedToken.s].expiresAt)
          => /\ emitted' = <<Respond(401, [error |-> "Unauthorized"])>>
             /\ requests' = requests
             /\ PresentedToken.s \notin DOMAIN sessionStore'
       /\ (last'.op = "adminLogout" /\ JsTruthy(PresentedToken))
          => PresentedToken.s \notin DOMAIN sessionStore'
       /\ DOMAIN sessionStore' \subseteq
             DOMAIN sessionStore \cup {generateSessionToken(nextToken)}
       /\ generateSessionToken(nextToken) \in DOMAIN sessionStore'
          => /\ last' = Step("adminLogin", HttpClient,
                             [password |-> AdminPassword])
             /\ nextToken' = nextToken + 1
       /\ nextToken' >= nextToken
       /\ \A token \in DOMAIN sessionStore' :
             /\ sessionStore'[token].expiresAt =
                   sessionStore'[token].createdAt + SessionTimeout
             /\ token \in DOMAIN sessionStore
                => sessionStore'[token].createdAt = sessionStore[token].createdAt
             /\ \E n \in 1..MaxTokens : n < nextToken' /\ token = <<"token", n>>
      ]_vars

\* A deletion is started with the token of the header in the very hour in
\* which the session expires, a day after the login.
C39_Witness ==
    /\ last = Step("adminDelete", HttpClient,
                   [cookie |-> JsUndefined,
                    header |-> JsString(generateSessionToken(1))])
    /\ DOMAIN requests # {}
    /\ generateSessionToken(1) \in DOMAIN sessionStore
    /\ sessionStore[generateSessionToken(1)] =
          [createdAt |-> now - SessionTimeout, expiresAt |-> now,
           lastAccess |-> now]
    /\ now = 36

----------------------------------------------------------------------------
(* Claims about the frame of the fan-out.                                  *)

\* C40: a step that sends `newPost`, which is the fan-out of a stored post,
\* leaves the registry, the posts and the votes as they were.
C40_FanoutFrame ==
    [][(\E k \in 1..Len(emitted') : emitted'[k].event = "newPost")
          => /\ activeUsers' = activeUsers
             /\ posts' = posts
             /\ votes' = votes]_vars

\* A post has just been fanned out to connection 2 and not to connection
\* 1, which is registered in another channel, while a second message is
\* in flight.
C40_Witness ==
    /\ \E k \in 1..Len(emitted) :
          emitted[k].event = "newPost" /\ emitted[k].to = 2
    /\ \A k \in 1..Len(emitted) :
          emitted[k].event = "newPost" => emitted[k].to # 1
    /\ DOMAIN activeUsers = {1, 2}
    /\ activeUsers[1].channel = JsString(<<>>)
    /\ sends # {}

=============================================================================
